---- MODULE Spec2Model ----
(***************************************************************************)
(* A model of the deduplicating virtual file system of                     *)
(* SinbereeGit/VFS-practice:                                               *)
(*   - DirTreeHandler   (src/file_system/_dir_tree_handler.py)             *)
(*   - CountManager     (src/file_system/_utils/count_manager.py)          *)
(*   - VirtualFileSystem (src/file_system/virtual_file_system.py)          *)
(*                                                                         *)
(* Representation.                                                         *)
(*   A node of the directory tree is the Python list                       *)
(*   [is_dir, metadata, content].  Python nodes are objects that are       *)
(*   referenced (self._current_dir, self._old_dir, note_tmp), so the tree  *)
(*   is kept as a heap: a function from node identifiers to nodes, the     *)
(*   root self._dir_tree being node 0.  `content` holds the child map of a *)
(*   directory (name -> node identifier); the digest a file's content slot *)
(*   holds is kept in `hash` ("" when the slot holds no digest).           *)
(*   The order of a Python dict's keys is not modelled.                    *)
(*   A textual inner path is a sequence of tokens, a token being either    *)
(*   the separator "/" or a whole name.                                    *)
(*   The clock is a natural number; one unit is one formatted minute.      *)
(***************************************************************************)
EXTENDS Integers, Sequences, FiniteSets, TLC

\* ------------------------------------------------------------------------
\* Bounds of the model
\* ------------------------------------------------------------------------
MaxNodes == 2        \* non-root tree nodes, summed over all users
MaxClock == 1        \* the clock runs from 0 to MaxClock
MaxCount == 2        \* largest count a ledger row may reach

\* ------------------------------------------------------------------------
\* Small value sets
\* ------------------------------------------------------------------------
NameSeq == <<"a", "b">>
Names == {NameSeq[i] : i \in 1..Len(NameSeq)}
Users == {"u1", "u2"}
Digests == {"h1", "h2"}
NoHash == ""
EmptyFn == [x \in {} |-> 0]

create_time == "0"
last_modify_time == "1"

\* ------------------------------------------------------------------------
\* Generic helpers (Python list slicing)
\* ------------------------------------------------------------------------
Last(s) == s[Len(s)]
Front(s) == SubSeq(s, 1, Len(s) - 1)
Rest(s) == SubSeq(s, 2, Len(s))
IsPrefix(p, s) == Len(p) <= Len(s) /\ SubSeq(s, 1, Len(p)) = p
DictSet(d, k, v) == [x \in (DOMAIN d) \cup {k} |-> IF x = k THEN v ELSE d[x]]
DictPop(d, k) == [x \in (DOMAIN d) \ {k} |-> d[x]]
\* a local variable: Body with its parameter bound to the value v
Let(v, Body(_)) == Body(v)

\* ------------------------------------------------------------------------
\* DirTreeHandler: nodes and the handler object
\* ------------------------------------------------------------------------
NewNote(isdir) == [is_dir |-> isdir, metadata |-> EmptyFn, content |-> EmptyFn, hash |-> NoHash]

\* the handler right after __init__ on a tree document `heap`
InitHandler(heap, clk) ==
    [heap |-> heap, cur |-> 0, curp |-> <<"/">>, old |-> 0, oldp |-> <<"/">>,
     clock |-> clk, tick |-> 0]

EmptyTree == (0 :> NewNote(TRUE))

Res(h, e) == [h |-> h, err |-> e]

Save(h) == [h EXCEPT !.old = h.cur, !.oldp = h.curp]
Backward(h) == [h EXCEPT !.cur = h.old, !.curp = h.oldp]
GetState(h) == <<h.old, h.oldp, h.cur, h.curp>>
SetState(h, s) == [h EXCEPT !.old = s[1], !.oldp = s[2], !.cur = s[3], !.curp = s[4]]

\* datetime.now(): the clock may advance before a read; h.tick counts the
\* reads left before the minute changes (0: it does not change).
GetCurrentTime(h) ==
    IF h.tick = 1 /\ h.clock < MaxClock
    THEN [h EXCEPT !.clock = h.clock + 1, !.tick = 0]
    ELSE [h EXCEPT !.tick = IF h.tick > 0 THEN h.tick - 1 ELSE 0]

Children(h) == h.heap[h.cur].content

RECURSIVE GotoDirLoop(_, _)
GotoDirLoop(h, items) ==
    IF items = <<>> THEN [h |-> h, ok |-> TRUE]
    ELSE LET item == Head(items) IN
         IF item \in DOMAIN Children(h)
         THEN IF ~h.heap[Children(h)[item]].is_dir
              THEN [h |-> Backward(h), ok |-> FALSE]
              ELSE GotoDirLoop([h EXCEPT !.cur = Children(h)[item],
                                         !.curp = h.curp \o <<item>>], Tail(items))
         ELSE [h |-> Backward(h), ok |-> FALSE]

GotoDir(h, dir_path) ==
    LET h1 == Save(h) IN
    IF dir_path = <<>> THEN [h |-> h1, ok |-> TRUE]
    ELSE IF dir_path[1] = "/"
         THEN GotoDirLoop([h1 EXCEPT !.cur = 0, !.curp = <<"/">>], Rest(dir_path))
         ELSE GotoDirLoop(h1, dir_path)

\* the tail of __goto_path: look the last component up in the current directory
GotoPathLast(h, path) ==
    IF Last(path) \in DOMAIN Children(h)
    THEN LET c == Children(h)[Last(path)] IN
         IF h.heap[c].is_dir
         THEN [h |-> [h EXCEPT !.cur = c, !.curp = h.curp \o <<Last(path)>>], res |-> "is_dir"]
         ELSE [h |-> h, res |-> "is_file"]
    ELSE [h |-> Backward(h), res |-> "False"]

GotoPath(h, path) ==
    LET h1 == Save(h)
        old_dir_tmp == h1.old
        old_dir_path_tmp == h1.oldp
    IN
    IF path = <<>> THEN [h |-> h1, res |-> "is_dir"]
    ELSE IF Len(path) = 1
         THEN IF path[1] = "/"
              THEN [h |-> [h1 EXCEPT !.cur = 0, !.curp = <<"/">>], res |-> "is_dir"]
              ELSE GotoPathLast(h1, path)
         ELSE Let(GotoDir(h1, Front(path)), LAMBDA g :
              LET h2 == [g.h EXCEPT !.old = old_dir_tmp, !.oldp = old_dir_path_tmp]
              IN IF ~g.ok
                 THEN [h |-> Backward(h2), res |-> "False"]
                 ELSE GotoPathLast(h2, path))

ToAbsolutePath(h, path) ==
    IF path = <<>> THEN h.curp
    ELSE IF path[1] = "/" THEN path
    ELSE h.curp \o path

\* the containment test with the roles of its two paths exchanged
IsPathContainedByContained(h, container_path, contained_path) ==
    IsPrefix(ToAbsolutePath(h, container_path), ToAbsolutePath(h, contained_path))

\* __is_path_contained: the absolute contained_path is a prefix of the
\* absolute container_path
IsPathContained(h, container_path, contained_path) ==
    IsPrefix(ToAbsolutePath(h, contained_path), ToAbsolutePath(h, container_path))

\* is_path_exists: [h, ok]
IsPathExists(h, path) ==
    Let(GotoPath(h, path), LAMBDA g :
    IF g.res = "False" THEN [h |-> g.h, ok |-> FALSE]
    ELSE [h |-> Backward(g.h), ok |-> TRUE])

SetMeta(heap, id, k, v) ==
    [heap EXCEPT ![id].metadata = DictSet(heap[id].metadata, k, v)]


RECURSIVE UpdateParentLoop(_, _, _)
UpdateParentLoop(h, items, current_time) ==
    IF items = <<>> THEN h
    ELSE Let(GotoDir(h, <<Head(items)>>).h, LAMBDA g :
         UpdateParentLoop([g EXCEPT !.heap = SetMeta(g.heap, g.cur, last_modify_time, current_time)],
                          Tail(items), current_time))

\* __update_parent_last_modified_time_recursively
UpdateParentLastModifiedTimeRecursively(h, path) ==
    Let(IsPathExists(h, path), LAMBDA e :
    IF ~e.ok THEN Res(e.h, "PathNotExists")
    ELSE Let(GetCurrentTime(e.h), LAMBDA h1 :
         Let(GotoDir(h1, <<"/">>).h, LAMBDA h2 :
         LET state == GetState(e.h)
             current_time == h1.clock
             abs == ToAbsolutePath(h2, path)
         IN Res(SetState(UpdateParentLoop(h2, Front(abs), current_time), state), "ok"))))

\* the nodes of the subtree rooted at node id (id included)
RECURSIVE SubtreeIds(_, _)
SubtreeIds(heap, id) ==
    {id} \cup UNION {SubtreeIds(heap, heap[id].content[n]) : n \in DOMAIN heap[id].content}

\* a help that stamps the directory and none of the nodes below it
UpdateChildHelpOfTop(heap, id, current_time) ==
    [heap EXCEPT ![id].metadata = DictSet(heap[id].metadata, last_modify_time, current_time)]

\* update_child_last_modified_time_recursively_help: every node of the
\* subtree of the directory gets the same current_time
UpdateChildHelp(heap, id, current_time) ==
    [i \in DOMAIN heap |->
        IF i \in SubtreeIds(heap, id)
        THEN [heap[i] EXCEPT !.metadata = DictSet(heap[i].metadata, last_modify_time, current_time)]
        ELSE heap[i]]

\* __update_child_last_modified_time_recursively
UpdateChildLastModifiedTimeRecursively(h, dir_path) ==
    Let(GotoPath(h, dir_path), LAMBDA g :
    IF g.res = "False" THEN Res(g.h, "PathNotExists")
    ELSE IF g.res # "is_dir" THEN Res(Backward(g.h), "PathIsNotDir")
    ELSE Let(GetCurrentTime(Backward(g.h)), LAMBDA h2 :
         LET target == g.h.cur
             state == GetState(Backward(g.h))
             h3 == [h2 EXCEPT !.heap = UpdateChildHelp(h2.heap, target, h2.clock)]
         IN Res(SetState(h3, state), "ok")))

NewId(heap) == Cardinality(DOMAIN heap)

\* __create_note
CreateNote(h, path, isdir) ==
    IF path = <<>> THEN Res(h, "InvalidCurrentDirOperation")
    ELSE IF Last(path) = "" THEN Res(h, "InvalidNamingConvention")
    ELSE IF Last(path) = "/" THEN Res(h, "InvalidNamingConvention")
    ELSE Let(GotoDir(h, Front(path)), LAMBDA g :
         IF ~g.ok THEN Res(g.h, "DirOfPathNotExists")
         ELSE LET n == NewId(g.h.heap)
                  heap1 == [g.h.heap EXCEPT ![g.h.cur].content = DictSet(@, Last(path), n)] @@ (n :> NewNote(isdir))
              IN Let(GetCurrentTime([g.h EXCEPT !.heap = heap1]), LAMBDA h1 :
                 LET current_time == h1.clock
                     h2 == [h1 EXCEPT !.heap = SetMeta(SetMeta(h1.heap, n, create_time, current_time),
                                                       n, last_modify_time, current_time)]
                 IN Let(UpdateParentLastModifiedTimeRecursively(h2, <<Last(path)>>), LAMBDA u :
                    IF u.err # "ok" THEN u ELSE Res(SetState(u.h, GetState(h)), "ok"))))

Mkdir(h, path) == CreateNote(h, path, TRUE)
CreateFile(h, path) == CreateNote(h, path, FALSE)

GetCurrentDirPath(h) == h.curp

Chdir(h, dir_path) ==
    Let(GotoPath(h, dir_path), LAMBDA g :
    IF g.res = "False" THEN Res(g.h, "PathNotExists")
    ELSE IF g.res # "is_dir" THEN Res(Backward(g.h), "PathIsNotDir")
    ELSE Res(g.h, "ok"))

\* get_metadata_of_path: [h, err, val]
GetMetadataOfPath(h, path) ==
    Let(GotoPath(h, path), LAMBDA g :
    IF g.res = "False" THEN [h |-> g.h, err |-> "PathNotExists", val |-> EmptyFn]
    ELSE [h |-> Backward(g.h), err |-> "ok",
          val |-> IF g.res = "is_dir" THEN g.h.heap[g.h.cur].metadata
                  ELSE g.h.heap[Children(g.h)[Last(path)]].metadata])

\* modify_metadata_of_path
ModifyMetadataOfPath(h, path, metadata) ==
    Let(GotoPath(h, path), LAMBDA g :
    IF g.res = "False" THEN Res(g.h, "PathNotExists")
    ELSE Let(GetCurrentTime(g.h), LAMBDA h1 :
         LET current_time == h1.clock
             id == IF g.res = "is_dir" THEN h1.cur ELSE Children(h1)[Last(path)]
         IN IF create_time \notin DOMAIN h1.heap[id].metadata THEN Res(h1, "KeyError")
            ELSE LET ct == h1.heap[id].metadata[create_time]
                     md == DictSet(DictSet(metadata, create_time, ct), last_modify_time, current_time)
                     h2 == [h1 EXCEPT !.heap[id].metadata = md]
                 IN Let(UpdateParentLastModifiedTimeRecursively(h2, path), LAMBDA u :
                    IF u.err # "ok" THEN u ELSE Res(Backward(u.h), "ok"))))

\* get_dir_content: [h, err, val], val the set of child names
GetDirContent(h, dir_path) ==
    Let(GotoPath(h, dir_path), LAMBDA g :
    IF g.res = "False" THEN [h |-> g.h, err |-> "PathNotExists", val |-> {}]
    ELSE IF g.res # "is_dir" THEN [h |-> Backward(g.h), err |-> "PathIsNotDir", val |-> {}]
    ELSE [h |-> Backward(g.h), err |-> "ok", val |-> DOMAIN Children(g.h)])

\* get_file_hash: [h, err, val]
GetFileHash(h, file_path) ==
    Let(GotoPath(h, file_path), LAMBDA g :
    IF g.res = "False" THEN [h |-> g.h, err |-> "PathNotExists", val |-> NoHash]
    ELSE IF g.res = "is_dir" THEN [h |-> Backward(g.h), err |-> "PathIsNotFile", val |-> NoHash]
    ELSE LET result == g.h.heap[Children(g.h)[Last(file_path)]].hash IN
         IF result = NoHash THEN [h |-> Backward(g.h), err |-> "FileIDNotFound", val |-> NoHash]
         ELSE [h |-> Backward(g.h), err |-> "ok", val |-> result])

SetFileHash(h, file_path, hash_value) ==
    Let(GotoPath(h, file_path), LAMBDA g :
    IF g.res = "False" THEN Res(g.h, "PathNotExists")
    ELSE IF g.res = "is_dir" THEN Res(Backward(g.h), "PathIsNotFile")
    ELSE LET id == Children(g.h)[Last(file_path)] IN
         Res(Backward([g.h EXCEPT !.heap[id].hash = hash_value]), "ok"))

\* is_dir: [h, err, val]
IsDir(h, path) ==
    Let(GotoPath(h, path), LAMBDA g :
    IF g.res = "False" THEN [h |-> Backward(g.h), err |-> "PathNotExists", val |-> FALSE]
    ELSE [h |-> Backward(g.h), err |-> "ok", val |-> g.res = "is_dir"])


\* copy.deepcopy of the node id: a fresh, independent copy of its subtree
DeepCopy(heap, id) ==
    LET S == SubtreeIds(heap, id)
        n == NewId(heap)
        f == [i \in S |-> n + Cardinality({j \in S : j < i})]
        fresh == [k \in {f[i] : i \in S} |->
                    LET i == CHOOSE i \in S : f[i] = k IN
                    [heap[i] EXCEPT !.content = [c \in DOMAIN heap[i].content |-> f[heap[i].content[c]]]]]
    IN [heap |-> heap @@ fresh, id |-> f[id]]

\* the part of move and copy after the node was put at dst_path[-1] in the
\* current directory: timestamps of the parents and of the node itself
PlaceNote(h, state, dst_path, note_tmp, current_time) ==
    Let(UpdateParentLastModifiedTimeRecursively(
            [h EXCEPT !.heap[h.cur].content = DictSet(@, Last(dst_path), note_tmp)],
            <<Last(dst_path)>>), LAMBDA u :
    IF u.err # "ok" THEN u
    ELSE IF u.h.heap[note_tmp].is_dir
         THEN Let(UpdateChildLastModifiedTimeRecursively(u.h, <<Last(dst_path)>>), LAMBDA c :
              IF c.err # "ok" THEN c ELSE Res(SetState(c.h, state), "ok"))
         ELSE Res(SetState([u.h EXCEPT !.heap = SetMeta(u.h.heap, note_tmp, last_modify_time, current_time)],
                           state), "ok"))

\* the condition checks of move and copy after the containment checks
MoveCopyChecks(h, src_path, dst_path) ==
    IF src_path = <<>> \/ dst_path = <<>> THEN Res(h, "InvalidCurrentDirOperation")
    ELSE Let(IsPathExists(h, src_path), LAMBDA e1 :
         IF ~e1.ok THEN Res(e1.h, "PathNotExists")
         ELSE Let(IsPathExists(e1.h, Front(dst_path)), LAMBDA e2 :
              IF ~e2.ok THEN Res(e2.h, "PathNotExists")
              ELSE IF Last(dst_path) = "" THEN Res(e2.h, "InvalidNamingConvention")
              ELSE IF Last(dst_path) = "/" THEN Res(e2.h, "InvalidNamingConvention")
              ELSE Res(e2.h, "ok")))

\* DirTreeHandler.move
Move(h, src_path, dst_path) ==
    IF IsPathContained(h, dst_path, src_path) THEN Res(h, "InvalidOperation")
    ELSE IF IsPathContained(h, <<>>, src_path) THEN Res(h, "InvalidCurrentDirOperation")
    ELSE Let(MoveCopyChecks(h, src_path, dst_path), LAMBDA k :
         IF k.err # "ok" THEN k
         ELSE Let(GetCurrentTime(k.h), LAMBDA h1 :
              Let(UpdateParentLastModifiedTimeRecursively(GotoDir(h1, Front(src_path)).h,
                                                          <<Last(src_path)>>), LAMBDA u :
              IF u.err # "ok" THEN u
              ELSE IF Last(src_path) \notin DOMAIN Children(u.h) THEN Res(u.h, "KeyError")
              ELSE LET note_tmp == Children(u.h)[Last(src_path)]
                       h3 == [u.h EXCEPT !.heap[u.h.cur].content = DictPop(@, Last(src_path))]
                   IN Let(GotoDir(Backward(h3), Front(dst_path)).h, LAMBDA h5 :
                      PlaceNote(h5, GetState(k.h), dst_path, note_tmp, h1.clock)))))

\* DirTreeHandler.copy
Copy(h, src_path, dst_path) ==
    IF IsPathContained(h, dst_path, src_path) THEN Res(h, "InvalidOperation")
    ELSE Let(MoveCopyChecks(h, src_path, dst_path), LAMBDA k :
         IF k.err # "ok" THEN k
         ELSE Let(GetCurrentTime(k.h), LAMBDA h1 :
              Let(GotoDir(h1, Front(src_path)).h, LAMBDA h2 :
              IF Last(src_path) \notin DOMAIN Children(h2) THEN Res(h2, "KeyError")
              ELSE Let(DeepCopy(h2.heap, Children(h2)[Last(src_path)]), LAMBDA d :
                   Let(GotoDir(Backward([h2 EXCEPT !.heap = d.heap]), Front(dst_path)).h, LAMBDA h4 :
                   PlaceNote(h4, GetState(k.h), dst_path, d.id, h1.clock))))))

\* DirTreeHandler.delete
Delete(h, path) ==
    IF path = <<>> THEN Res(h, "InvalidCurrentDirOperation")
    ELSE Let(IsPathExists(h, path), LAMBDA e :
         IF ~e.ok THEN Res(e.h, "PathNotExists")
         ELSE Let(UpdateParentLastModifiedTimeRecursively(GotoDir(e.h, Front(path)).h,
                                                          <<Last(path)>>), LAMBDA u :
              IF u.err # "ok" THEN u
              ELSE IF Last(path) \notin DOMAIN Children(u.h) THEN Res(u.h, "KeyError")
              ELSE Res(Backward([u.h EXCEPT !.heap[u.h.cur].content = DictPop(@, Last(path))]), "ok")))


\* ------------------------------------------------------------------------
\* CountManager: the ledger is the table id_count, a map id -> count
\* ------------------------------------------------------------------------
CreateQuoteCountForId(ledger, counter_id) ==
    IF counter_id \in DOMAIN ledger
    THEN [ledger |-> ledger, err |-> "CounterExists"]
    ELSE [ledger |-> DictSet(ledger, counter_id, 1), err |-> "ok"]

\* an increment without the creation of the row that is missing
AddQuoteCountForIdOfRow(ledger, counter_id) ==
    [ledger |-> [i \in DOMAIN ledger |-> IF i = counter_id THEN ledger[i] + 1 ELSE ledger[i]],
     err |-> "ok"]

AddQuoteCountForId(ledger, counter_id) ==
    IF counter_id \in DOMAIN ledger
    THEN [ledger |-> [ledger EXCEPT ![counter_id] = @ + 1], err |-> "ok"]
    ELSE CreateQuoteCountForId(ledger, counter_id)

\* a decrement that reports the rowcount of its UPDATE, not of its DELETE
SubQuoteCountForIdRowOfUpdate(ledger, counter_id) ==
    LET updated == [i \in DOMAIN ledger |-> IF i = counter_id THEN ledger[i] - 1 ELSE ledger[i]]
        deleted == {i \in DOMAIN updated : i = counter_id /\ updated[i] = 0}
    IN [ledger |-> [i \in (DOMAIN updated) \ deleted |-> updated[i]],
        ret |-> counter_id \in DOMAIN ledger, err |-> "ok"]

\* a decrement without the DELETE of the row that reached zero
SubQuoteCountForIdKeepsRow(ledger, counter_id) ==
    LET updated == [i \in DOMAIN ledger |-> IF i = counter_id THEN ledger[i] - 1 ELSE ledger[i]]
    IN [ledger |-> updated, ret |-> counter_id \in DOMAIN ledger /\ updated[counter_id] = 0, err |-> "ok"]

\* sub_quote_count_for_id: UPDATE count = count - 1, then DELETE where
\* count = 0; ret is the DELETE's rowcount
SubQuoteCountForId(ledger, counter_id) ==
    LET updated == [i \in DOMAIN ledger |-> IF i = counter_id THEN ledger[i] - 1 ELSE ledger[i]]
        deleted == {i \in DOMAIN updated : i = counter_id /\ updated[i] = 0}
    IN [ledger |-> [i \in (DOMAIN updated) \ deleted |-> updated[i]],
        ret |-> deleted # {}, err |-> "ok"]

GetQuoteCountForId(ledger, counter_id) ==
    IF counter_id \in DOMAIN ledger
    THEN [val |-> ledger[counter_id], err |-> "ok"]
    ELSE [val |-> 0, err |-> "CounterNotExists"]

\* ------------------------------------------------------------------------
\* VirtualFileSystem: path conversion
\* ------------------------------------------------------------------------
Sep == "/"

\* "//" in path
HasDoubleSep(path) == \E i \in 1..(Len(path) - 1) : path[i] = Sep /\ path[i + 1] = Sep

RECURSIVE LStrip(_)
LStrip(path) == IF path # <<>> /\ Head(path) = Sep THEN LStrip(Tail(path)) ELSE path
RECURSIVE RStrip(_)
RStrip(path) == IF path # <<>> /\ Last(path) = Sep THEN RStrip(Front(path)) ELSE path
\* str.strip('/')
Strip(path) == RStrip(LStrip(path))

\* the text of a run of tokens without separator ("" for the empty run)
Segment(toks) == IF toks = <<>> THEN "" ELSE IF Len(toks) = 1 THEN toks[1] ELSE "?"

\* str.split('/')
RECURSIVE Split(_)
Split(path) ==
    IF \A i \in 1..Len(path) : path[i] # Sep THEN <<Segment(path)>>
    ELSE LET i == CHOOSE i \in 1..Len(path) : path[i] = Sep /\ \A j \in 1..(i - 1) : path[j] # Sep
         IN <<Segment(SubSeq(path, 1, i - 1))>> \o Split(SubSeq(path, i + 1, Len(path)))

\* __convert_inner_path_to_list_path: [val, err]
ConvertInnerPathToListPath(path) ==
    IF HasDoubleSep(path) THEN [val |-> <<>>, err |-> "InvalidPath"]
    ELSE IF path = <<>> THEN [val |-> <<>>, err |-> "ok"]
    ELSE IF path = <<Sep>> THEN [val |-> <<"/">>, err |-> "ok"]
    ELSE IF Head(path) = Sep THEN [val |-> <<"/">> \o Split(Strip(path)), err |-> "ok"]
    ELSE [val |-> Split(Strip(path)), err |-> "ok"]

\* '/'.join(names)
RECURSIVE Join(_)
Join(names) ==
    IF names = <<>> THEN <<>>
    ELSE LET first == IF Head(names) = "" THEN <<>> ELSE <<Head(names)>> IN
         IF Len(names) = 1 THEN first ELSE first \o <<Sep>> \o Join(Tail(names))

\* __convert_list_path_to_inner_path
ConvertListPathToInnerPath(path) ==
    IF path = <<>> THEN <<>>
    ELSE IF path[1] = "/" THEN <<Sep>> \o Join(Rest(path))
    ELSE Join(path)


\* ------------------------------------------------------------------------
\* The host file system: a fixed set of outer paths outside the root R, the
\* directory holding R, and the blob of one digest inside R/EntityFiles.
\* over_root says that the path contains the root directory.  kind, bytes
\* and entries of a path are what os.path.isfile, os.path.isdir, open and
\* os.listdir find there, all of which follow a symbolic link; link says
\* that the path itself is a symbolic link.
\* ------------------------------------------------------------------------
OuterFile(b, base) ==
    [kind |-> "file", bytes |-> b, base |-> base, entries |-> EmptyFn,
     over_root |-> FALSE, link |-> FALSE]
OuterDir(ents, base, over) ==
    [kind |-> "dir", bytes |-> "", base |-> base, entries |-> ents,
     over_root |-> over, link |-> FALSE]
\* a symbolic link named base to what is at target
OuterLink(target, base) == [target EXCEPT !.base = base, !.link = TRUE]
\* a named pipe: neither a regular file nor a directory
OuterFifo(base) == [OuterFile("", base) EXCEPT !.kind = "fifo"]

OuterFS ==
    [f1 |-> OuterFile("h1", "f1"),
     f2 |-> OuterFile("h2", "f2"),
     d |-> OuterDir([a |-> "da"], "d", FALSE),
     da |-> OuterFile("h2", "a"),
     ds |-> OuterDir([a |-> "dsa", b |-> "dsb"], "ds", FALSE),
     dsa |-> OuterLink(OuterFile("h1", "f1"), "a"),
     dsb |-> OuterFifo("b"),
     up |-> OuterDir(EmptyFn, "up", TRUE),
     dx |-> OuterDir(("a" :> "dxa") @@ ("b" :> "d") @@ ("n." :> "dxn")
                       @@ ("n.t" :> "dxt") @@ ("n.T" :> "dxT") @@ ("n.t.a" :> "dxu"),
                     "dx", FALSE),
     dxa |-> OuterFile("h1", "a"),
     dxn |-> OuterFile("h2", "n."),
     dxt |-> OuterFile("h1", "n.t"),
     dxT |-> OuterFile("h2", "n.T"),
     dxu |-> OuterFile("h1", "n.t.a"),
     fh |-> OuterFile("h2", "h1")]

\* the names os.listdir gives, in its order, and the characters of each name
EntryNameSeq == NameSeq \o <<"n.", "n.t", "n.T", "n.t.a">>
Spelling ==
    ("a" :> <<"a">>) @@ ("b" :> <<"b">>) @@ ("n." :> <<"n", ".">>)
      @@ ("n.t" :> <<"n", ".", "t">>) @@ ("n.T" :> <<"n", ".", "T">>)
      @@ ("n.t.a" :> <<"n", ".", "t", ".", "a">>)

\* the path <root>/EntityFiles/<EntityFileId>: it exists while the blob does
EntityFileId == "h1"
EntityFilePath == "R/EntityFiles/h1"

OuterPaths == DOMAIN OuterFS \cup {EntityFilePath, "none"}

\* what is at an existing outer path
OuterAt(blobs, outer_path) ==
    IF outer_path = EntityFilePath THEN OuterFile(blobs[EntityFileId], EntityFileId)
    ELSE OuterFS[outer_path]

OsPathExists(blobs, outer_path) ==
    \/ outer_path \in DOMAIN OuterFS
    \/ outer_path = EntityFilePath /\ EntityFileId \in DOMAIN blobs
OsPathIsFile(blobs, outer_path) ==
    OsPathExists(blobs, outer_path) /\ OuterAt(blobs, outer_path).kind = "file"
OsPathIsDir(blobs, outer_path) ==
    OsPathExists(blobs, outer_path) /\ OuterAt(blobs, outer_path).kind = "dir"
\* __is_outer_path_contained(outer_path, self._root_dir): the root directory
\* is outer_path or lies under it
IsOuterPathContained(blobs, outer_path) ==
    OsPathExists(blobs, outer_path) /\ OuterAt(blobs, outer_path).over_root
\* FileHashCalculator.calculate_file_hash: bytes are named by their digest
CalculateFileHash(blobs, outer_path) == OuterAt(blobs, outer_path).bytes

\* ------------------------------------------------------------------------
\* VirtualFileSystem: v = [h, ledger, blobs]; blobs maps the names of the
\* files in EntityFiles to their bytes
\* ------------------------------------------------------------------------
VRes(h, ledger, blobs, e) == [h |-> h, ledger |-> ledger, blobs |-> blobs, err |-> e]
WithH(v, r) == VRes(r.h, v.ledger, v.blobs, r.err)

IsFileExistViaFileId(blobs, file_id) == file_id \in DOMAIN blobs

\* copy_file_from_outside_help: shutil.copy into EntityFiles under the outer
\* base name, then os.rename to file_id
\* (shutil.copy of a file of EntityFiles onto itself raises SameFileError)
CopyFileFromOutsideHelp(blobs, src_file_path, file_id) ==
    IF src_file_path = EntityFilePath THEN [blobs |-> blobs, err |-> "SameFileError"]
    ELSE LET base == OuterFS[src_file_path].base
             copied == DictSet(blobs, base, OuterFS[src_file_path].bytes)
         IN [blobs |-> DictSet(DictPop(copied, base), file_id, copied[base]), err |-> "ok"]

\* __copy_file_from_outside
CopyFileFromOutside(v, outer_path, inner_path) ==
    IF ~OsPathExists(v.blobs, outer_path) THEN VRes(v.h, v.ledger, v.blobs, "FileNotFoundError")
    ELSE IF ~OsPathIsFile(v.blobs, outer_path) THEN VRes(v.h, v.ledger, v.blobs, "IsADirectoryError")
    ELSE IF IsOuterPathContained(v.blobs, outer_path) THEN VRes(v.h, v.ledger, v.blobs, "InvalidOperation")
    ELSE IF inner_path = <<>> THEN VRes(v.h, v.ledger, v.blobs, "InvalidCurrentDirOperation")
    ELSE Let(IsPathExists(v.h, Front(inner_path)), LAMBDA e1 :
         IF ~e1.ok THEN VRes(e1.h, v.ledger, v.blobs, "DirOfPathNotExists")
         ELSE Let(IsPathExists(e1.h, inner_path), LAMBDA e2 :
              IF e2.ok THEN VRes(e2.h, v.ledger, v.blobs, "PathExists")
              ELSE LET file_id == CalculateFileHash(v.blobs, outer_path)
                       known == IsFileExistViaFileId(v.blobs, file_id)
                       help == IF known THEN [blobs |-> v.blobs, err |-> "ok"]
                               ELSE CopyFileFromOutsideHelp(v.blobs, outer_path, file_id)
                       blobs1 == help.blobs
                       l == IF known THEN AddQuoteCountForId(v.ledger, file_id)
                            ELSE CreateQuoteCountForId(v.ledger, file_id)
                   IN IF help.err # "ok" THEN VRes(e2.h, v.ledger, blobs1, help.err)
                      ELSE IF l.err # "ok" THEN VRes(e2.h, l.ledger, blobs1, l.err)
                      ELSE Let(CreateFile(e2.h, inner_path), LAMBDA c :
                           IF c.err # "ok" THEN VRes(c.h, l.ledger, blobs1, c.err)
                           ELSE Let(SetFileHash(c.h, inner_path, file_id), LAMBDA sh :
                                VRes(sh.h, l.ledger, blobs1, sh.err)))))

RECURSIVE CopyDirFromOutside(_, _, _)
RECURSIVE CopyDirEntries(_, _, _, _)

\* the loop `for entry in os.listdir(outer_path)` of __copy_dir_from_outside,
\* from the i-th name on
CopyDirEntries(v, outer_path, inner_path, i) ==
    IF i > Len(EntryNameSeq) THEN VRes(v.h, v.ledger, v.blobs, "ok")
    ELSE LET entry == EntryNameSeq[i] IN
         IF entry \notin DOMAIN OuterFS[outer_path].entries
         THEN CopyDirEntries(v, outer_path, inner_path, i + 1)
         ELSE LET full_path == OuterFS[outer_path].entries[entry] IN
              Let(IF OsPathIsDir(v.blobs, full_path)
                  THEN CopyDirFromOutside(v, full_path, inner_path \o <<entry>>)
                  ELSE IF OsPathIsFile(v.blobs, full_path)
                  THEN CopyFileFromOutside(v, full_path, inner_path \o <<entry>>)
                  ELSE VRes(v.h, v.ledger, v.blobs, "ok"), LAMBDA r :
              IF r.err # "ok" THEN r
              ELSE CopyDirEntries(r, outer_path, inner_path, i + 1))

\* __copy_dir_from_outside
CopyDirFromOutside(v, outer_path, inner_path) ==
    IF ~OsPathExists(v.blobs, outer_path) THEN VRes(v.h, v.ledger, v.blobs, "FileNotFoundError")
    ELSE IF ~OsPathIsDir(v.blobs, outer_path) THEN VRes(v.h, v.ledger, v.blobs, "NotADirectoryError")
    ELSE IF IsOuterPathContained(v.blobs, outer_path) THEN VRes(v.h, v.ledger, v.blobs, "InvalidOperation")
    ELSE IF inner_path = <<>> THEN VRes(v.h, v.ledger, v.blobs, "InvalidCurrentDirOperation")
    ELSE Let(IsPathExists(v.h, Front(inner_path)), LAMBDA e1 :
         IF ~e1.ok THEN VRes(e1.h, v.ledger, v.blobs, "DirOfPathNotExists")
         ELSE Let(IsPathExists(e1.h, inner_path), LAMBDA e2 :
              IF e2.ok THEN VRes(e2.h, v.ledger, v.blobs, "PathExists")
              ELSE Let(Mkdir(e2.h, inner_path), LAMBDA m :
                   IF m.err # "ok" THEN WithH(v, m)
                   ELSE CopyDirEntries(WithH(v, m), outer_path, inner_path, 1))))

\* str.split('.')[-1]: what follows the last '.', the whole text without one
RECURSIVE SplitLast(_)
SplitLast(s) ==
    IF s = <<>> \/ Last(s) = "." THEN <<>> ELSE SplitLast(Front(s)) \o <<Last(s)>>
\* str.lower
Lower(s) == [i \in 1..Len(s) |-> IF s[i] = "T" THEN "t" ELSE IF s[i] = "A" THEN "a" ELSE s[i]]
\* basename.split('.')[-1].lower() in type_filter
InTypeFilter(basename, type_filter) == Lower(SplitLast(Spelling[basename])) \in type_filter

RECURSIVE CopyDirFromOutsideEx(_, _, _, _)
RECURSIVE CopyDirEntriesEx(_, _, _, _, _)

\* the loop `for entry in os.listdir(outer_path)` of
\* __copy_dir_from_outside_ex, from the i-th name on
CopyDirEntriesEx(v, outer_path, inner_path, type_filter, i) ==
    IF i > Len(EntryNameSeq) THEN VRes(v.h, v.ledger, v.blobs, "ok")
    ELSE LET entry == EntryNameSeq[i] IN
         IF entry \notin DOMAIN OuterFS[outer_path].entries
         THEN CopyDirEntriesEx(v, outer_path, inner_path, type_filter, i + 1)
         ELSE LET full_path == OuterFS[outer_path].entries[entry] IN
              Let(IF OsPathIsDir(v.blobs, full_path)
                  THEN CopyDirFromOutsideEx(v, full_path, inner_path \o <<entry>>, type_filter)
                  ELSE IF OsPathIsFile(v.blobs, full_path) /\ InTypeFilter(entry, type_filter)
                  THEN CopyFileFromOutside(v, full_path, inner_path \o <<entry>>)
                  ELSE VRes(v.h, v.ledger, v.blobs, "ok"), LAMBDA r :
              IF r.err # "ok" THEN r
              ELSE CopyDirEntriesEx(r, outer_path, inner_path, type_filter, i + 1))

\* __copy_dir_from_outside_ex
CopyDirFromOutsideEx(v, outer_path, inner_path, type_filter) ==
    IF ~OsPathExists(v.blobs, outer_path) THEN VRes(v.h, v.ledger, v.blobs, "FileNotFoundError")
    ELSE IF ~OsPathIsDir(v.blobs, outer_path) THEN VRes(v.h, v.ledger, v.blobs, "NotADirectoryError")
    ELSE IF IsOuterPathContained(v.blobs, outer_path) THEN VRes(v.h, v.ledger, v.blobs, "InvalidOperation")
    ELSE IF inner_path = <<>> THEN VRes(v.h, v.ledger, v.blobs, "InvalidCurrentDirOperation")
    ELSE Let(IsPathExists(v.h, Front(inner_path)), LAMBDA e1 :
         IF ~e1.ok THEN VRes(e1.h, v.ledger, v.blobs, "DirOfPathNotExists")
         ELSE Let(IsPathExists(e1.h, inner_path), LAMBDA e2 :
              IF e2.ok THEN VRes(e2.h, v.ledger, v.blobs, "PathExists")
              ELSE Let(Mkdir(e2.h, inner_path), LAMBDA m :
                   IF m.err # "ok" THEN WithH(v, m)
                   ELSE CopyDirEntriesEx(WithH(v, m), outer_path, inner_path, type_filter, 1))))

\* An outer path to write to: NewOuterPath does not exist and its directory
\* does, the directory of OrphanOuterPath does not exist.
NewOuterPath == "new"
OrphanOuterPath == "none/new"
OsPathDirnameExists(outer_path) == outer_path # OrphanOuterPath
\* what os.mkdir and the file copies have put at an outer path
OutDir(ents) == [is_dir |-> TRUE, hash |-> NoHash, content |-> ents]
OutFile(b) == [is_dir |-> FALSE, hash |-> b, content |-> EmptyFn]
Nothing == [is_dir |-> FALSE, hash |-> NoHash, content |-> EmptyFn]
ToOutside(h, e, out) == [h |-> h, err |-> e, out |-> out]

\* __copy_file_to_outside: [h, err, out]; shutil.copy of the blob of the
\* file's digest, then os.rename to outer_path
CopyFileToOutside(v, inner_path, outer_path) ==
    Let(IsPathExists(v.h, inner_path), LAMBDA e :
    IF ~e.ok THEN ToOutside(e.h, "PathNotExists", Nothing)
    ELSE Let(IsDir(e.h, inner_path), LAMBDA d :
         IF d.val THEN ToOutside(d.h, "PathIsNotFile", Nothing)
         ELSE IF IsOuterPathContained(v.blobs, outer_path) THEN ToOutside(d.h, "InvalidOperation", Nothing)
         ELSE IF ~OsPathDirnameExists(outer_path) THEN ToOutside(d.h, "FileNotFoundError", Nothing)
         ELSE IF OsPathExists(v.blobs, outer_path) THEN ToOutside(d.h, "FileExistsError", Nothing)
         ELSE Let(GetFileHash(d.h, inner_path), LAMBDA f :
              IF f.err # "ok" THEN ToOutside(f.h, f.err, Nothing)
              ELSE IF f.val \notin DOMAIN v.blobs THEN ToOutside(f.h, "FileNotFoundError", Nothing)
              ELSE ToOutside(f.h, "ok", OutFile(v.blobs[f.val])))))

RECURSIVE CopyDirToOutsideEx(_, _, _, _)
RECURSIVE CopyItemsToOutsideEx(_, _, _, _, _, _)

\* the loop `for item in contents` of __copy_dir_to_outside_ex, from the
\* i-th name on; ents is what the new outer directory holds so far, and
\* os.path.join(outer_path, item) is a path that does not exist in it
CopyItemsToOutsideEx(v, inner_path, contents, type_filter, i, ents) ==
    IF i > Len(EntryNameSeq) THEN ToOutside(v.h, "ok", OutDir(ents))
    ELSE LET item == EntryNameSeq[i]
             path_tmp == inner_path \o <<item>> IN
         IF item \notin contents
         THEN CopyItemsToOutsideEx(v, inner_path, contents, type_filter, i + 1, ents)
         ELSE Let(IsDir(v.h, path_tmp), LAMBDA d :
              Let(IF ~d.val
                  THEN IF InTypeFilter(item, type_filter)
                       THEN CopyFileToOutside(WithH(v, d), path_tmp, NewOuterPath)
                       ELSE ToOutside(d.h, "skip", Nothing)
                  ELSE CopyDirToOutsideEx(WithH(v, d), path_tmp, NewOuterPath, type_filter), LAMBDA r :
              IF r.err = "skip"
              THEN CopyItemsToOutsideEx(WithH(v, r), inner_path, contents, type_filter, i + 1, ents)
              ELSE IF r.err # "ok" THEN ToOutside(r.h, r.err, OutDir(ents))
              ELSE CopyItemsToOutsideEx(WithH(v, r), inner_path, contents, type_filter,
                                        i + 1, DictSet(ents, item, r.out))))

\* __copy_dir_to_outside_ex: [h, err, out]
CopyDirToOutsideEx(v, inner_path, outer_path, type_filter) ==
    Let(IsPathExists(v.h, inner_path), LAMBDA e :
    IF ~e.ok THEN ToOutside(e.h, "PathNotExists", Nothing)
    ELSE Let(IsDir(e.h, inner_path), LAMBDA d :
         IF ~d.val THEN ToOutside(d.h, "PathIsNotDir", Nothing)
         ELSE IF IsOuterPathContained(v.blobs, outer_path) THEN ToOutside(d.h, "InvalidOperation", Nothing)
         ELSE IF ~OsPathDirnameExists(outer_path) THEN ToOutside(d.h, "FileNotFoundError", Nothing)
         ELSE IF OsPathExists(v.blobs, outer_path) THEN ToOutside(d.h, "FileExistsError", Nothing)
         ELSE Let(GetDirContent(d.h, inner_path), LAMBDA c :
              CopyItemsToOutsideEx(WithH(v, c), inner_path, c.val, type_filter, 1, EmptyFn))))

\* os.remove of the blob file_id
OsRemoveBlob(blobs, file_id) ==
    IF file_id \in DOMAIN blobs
    THEN [blobs |-> DictPop(blobs, file_id), err |-> "ok"]
    ELSE [blobs |-> blobs, err |-> "FileNotFoundError"]

\* `if sub_quote_count_for_id(file_id): os.remove(...)`
SubAndRemove(v, h, file_id) ==
    LET sb == SubQuoteCountForId(v.ledger, file_id) IN
    IF sb.ret
    THEN LET rm == OsRemoveBlob(v.blobs, file_id) IN VRes(h, sb.ledger, rm.blobs, rm.err)
    ELSE VRes(h, sb.ledger, v.blobs, "ok")

RECURSIVE WalkQuoteCount(_, _, _)
RECURSIVE WalkQuoteCountItems(_, _, _, _, _)

\* the body of the loop for a file: add or subtract one reference
WalkQuoteCountFile(v, h, path_tmp, add) ==
    Let(GetFileHash(h, path_tmp), LAMBDA fh :
    IF fh.err # "ok" THEN WithH(v, fh)
    ELSE IF add
    THEN LET l == AddQuoteCountForId(v.ledger, fh.val)
         IN VRes(fh.h, l.ledger, v.blobs, l.err)
    ELSE SubAndRemove(v, fh.h, fh.val))

\* the loop `for item in contents` of __add_/__sub_quote_count_for_files_in_dir
WalkQuoteCountItems(v, dir_path, contents, i, add) ==
    IF i > Len(NameSeq) THEN VRes(v.h, v.ledger, v.blobs, "ok")
    ELSE LET item == NameSeq[i]
             path_tmp == dir_path \o <<item>>
         IN IF item \notin contents THEN WalkQuoteCountItems(v, dir_path, contents, i + 1, add)
            ELSE Let(IsDir(v.h, path_tmp), LAMBDA isd :
                 IF isd.err # "ok" THEN WithH(v, isd)
                 ELSE Let(IF isd.val THEN WalkQuoteCount(WithH(v, isd), path_tmp, add)
                          ELSE WalkQuoteCountFile(v, isd.h, path_tmp, add), LAMBDA r :
                      IF r.err # "ok" THEN r
                      ELSE WalkQuoteCountItems(r, dir_path, contents, i + 1, add)))

\* __add_quote_count_for_files_in_dir (add) and
\* __sub_quote_count_for_files_in_dir (~add)
WalkQuoteCount(v, dir_path, add) ==
    Let(IsPathExists(v.h, dir_path), LAMBDA e :
    IF ~e.ok THEN VRes(e.h, v.ledger, v.blobs, "PathNotExists")
    ELSE Let(IsDir(e.h, dir_path), LAMBDA isd :
         IF isd.err # "ok" THEN WithH(v, isd)
         ELSE IF ~isd.val THEN VRes(isd.h, v.ledger, v.blobs, "PathIsNotDir")
         ELSE Let(GetDirContent(isd.h, dir_path), LAMBDA c :
              IF c.err # "ok" THEN VRes(c.h, v.ledger, v.blobs, c.err)
              ELSE WalkQuoteCountItems(VRes(c.h, v.ledger, v.blobs, "ok"), dir_path, c.val, 1, add))))

AddQuoteCountForFilesInDir(v, dir_path) == WalkQuoteCount(v, dir_path, TRUE)
SubQuoteCountForFilesInDir(v, dir_path) == WalkQuoteCount(v, dir_path, FALSE)


\* ------------------------------------------------------------------------
\* VirtualFileSystem: the public methods (textual inner paths)
\* ------------------------------------------------------------------------
VfsChdir(v, dir_path) ==
    Let(ConvertInnerPathToListPath(dir_path), LAMBDA p :
    IF p.err # "ok" THEN VRes(v.h, v.ledger, v.blobs, p.err)
    ELSE WithH(v, Chdir(v.h, p.val)))

VfsModifyMetadataOfPath(v, path, metadata) ==
    Let(ConvertInnerPathToListPath(path), LAMBDA p :
    IF p.err # "ok" THEN VRes(v.h, v.ledger, v.blobs, p.err)
    ELSE WithH(v, ModifyMetadataOfPath(v.h, p.val, metadata)))

VfsCopyFromOutside(v, outer_path, inner_path) ==
    IF IsOuterPathContained(v.blobs, outer_path) THEN VRes(v.h, v.ledger, v.blobs, "InvalidOperation")
    ELSE Let(ConvertInnerPathToListPath(inner_path), LAMBDA p :
         IF p.err # "ok" THEN VRes(v.h, v.ledger, v.blobs, p.err)
         ELSE IF OsPathIsFile(v.blobs, outer_path) THEN CopyFileFromOutside(v, outer_path, p.val)
         ELSE CopyDirFromOutside(v, outer_path, p.val))

\* copy_dir_from_outside_ex
VfsCopyDirFromOutsideEx(v, outer_path, inner_path, type_filter) ==
    IF IsOuterPathContained(v.blobs, outer_path) THEN VRes(v.h, v.ledger, v.blobs, "InvalidOperation")
    ELSE Let(ConvertInnerPathToListPath(inner_path), LAMBDA p :
         IF p.err # "ok" THEN VRes(v.h, v.ledger, v.blobs, p.err)
         ELSE CopyDirFromOutsideEx(v, outer_path, p.val, type_filter))

\* copy_dir_to_outside_ex: [h, err, out]
VfsCopyDirToOutsideEx(v, inner_path, outer_path, type_filter) ==
    Let(ConvertInnerPathToListPath(inner_path), LAMBDA p :
    IF p.err # "ok" THEN ToOutside(v.h, p.err, Nothing)
    ELSE CopyDirToOutsideEx(v, p.val, outer_path, type_filter))

VfsMove(v, src_path, dst_path) ==
    Let(ConvertInnerPathToListPath(src_path), LAMBDA s :
    Let(ConvertInnerPathToListPath(dst_path), LAMBDA d :
    IF s.err # "ok" THEN VRes(v.h, v.ledger, v.blobs, s.err)
    ELSE IF d.err # "ok" THEN VRes(v.h, v.ledger, v.blobs, d.err)
    ELSE Let(IsPathExists(v.h, d.val), LAMBDA e :
         IF e.ok THEN VRes(e.h, v.ledger, v.blobs, "PathExists")
         ELSE WithH(v, Move(e.h, s.val, d.val)))))

\* the reference counting of copy after the tree was copied
VfsCopyCount(v, h, src) ==
    Let(IsDir(h, src), LAMBDA isd :
    IF isd.err # "ok" THEN WithH(v, isd)
    ELSE IF ~isd.val
    THEN Let(GetFileHash(isd.h, src), LAMBDA fh :
         IF fh.err # "ok" THEN WithH(v, fh)
         ELSE LET l == AddQuoteCountForId(v.ledger, fh.val)
              IN VRes(fh.h, l.ledger, v.blobs, l.err))
    ELSE AddQuoteCountForFilesInDir(WithH(v, isd), src))

VfsCopy(v, src_path, dst_path) ==
    Let(ConvertInnerPathToListPath(src_path), LAMBDA s :
    Let(ConvertInnerPathToListPath(dst_path), LAMBDA d :
    IF s.err # "ok" THEN VRes(v.h, v.ledger, v.blobs, s.err)
    ELSE IF d.err # "ok" THEN VRes(v.h, v.ledger, v.blobs, d.err)
    ELSE Let(IsPathExists(v.h, d.val), LAMBDA e :
         IF e.ok THEN VRes(e.h, v.ledger, v.blobs, "PathExists")
         ELSE Let(Copy(e.h, s.val, d.val), LAMBDA c :
              IF c.err # "ok" THEN WithH(v, c)
              ELSE VfsCopyCount(v, c.h, s.val)))))

\* the reference counting of delete before the tree is changed
VfsDeleteCount(v, path) ==
    Let(IsDir(v.h, path), LAMBDA isd :
    IF isd.err # "ok" THEN WithH(v, isd)
    ELSE IF ~isd.val
    THEN Let(GetFileHash(isd.h, path), LAMBDA fh :
         IF fh.err # "ok" THEN WithH(v, fh)
         ELSE SubAndRemove(v, fh.h, fh.val))
    ELSE SubQuoteCountForFilesInDir(WithH(v, isd), path))

VfsDelete(v, path) ==
    IF path = <<>> THEN VRes(v.h, v.ledger, v.blobs, "InvalidCurrentDirOperation")
    ELSE Let(ConvertInnerPathToListPath(path), LAMBDA p :
         IF p.err # "ok" THEN VRes(v.h, v.ledger, v.blobs, p.err)
         ELSE Let(VfsDeleteCount(v, p.val), LAMBDA q :
              IF q.err # "ok" THEN q
              ELSE WithH(q, Delete(q.h, p.val))))

VfsMkdir(v, path) ==
    Let(ConvertInnerPathToListPath(path), LAMBDA p :
    IF p.err # "ok" THEN VRes(v.h, v.ledger, v.blobs, p.err)
    ELSE Let(IsPathExists(v.h, p.val), LAMBDA e :
         IF e.ok THEN VRes(e.h, v.ledger, v.blobs, "PathExists")
         ELSE WithH(v, Mkdir(e.h, p.val))))

VfsAddFileViaHashValue(v, path, file_id) ==
    Let(ConvertInnerPathToListPath(path), LAMBDA p :
    IF p.err # "ok" THEN VRes(v.h, v.ledger, v.blobs, p.err)
    ELSE Let(IsPathExists(v.h, p.val), LAMBDA e :
         IF e.ok THEN VRes(e.h, v.ledger, v.blobs, "PathExists")
         ELSE IF ~IsFileExistViaFileId(v.blobs, file_id)
         THEN VRes(e.h, v.ledger, v.blobs, "InvalidOperation")
         ELSE Let(CreateFile(e.h, p.val), LAMBDA c :
              IF c.err # "ok" THEN WithH(v, c)
              ELSE Let(SetFileHash(c.h, p.val, file_id), LAMBDA sh :
                   IF sh.err # "ok" THEN WithH(v, sh)
                   ELSE LET l == AddQuoteCountForId(v.ledger, file_id)
                        IN VRes(sh.h, l.ledger, v.blobs, l.err)))))


\* ------------------------------------------------------------------------
\* The state machine
\* ------------------------------------------------------------------------
VARIABLES
    heap,     \* self._dir_tree of the live instance, as a heap (root: node 0)
    cur,      \* self._current_dir (a node of heap)
    curp,     \* self._current_dir_path
    clock,    \* the wall clock, in minutes
    ledger,   \* table id_count of file_quote_count.sqlite
    blobs,    \* the files of <root>/EntityFiles: name -> bytes
    user,     \* user_id of the live instance
    docs,     \* Users/<user_id>/dirTreeHandler.json of every user that is not live
    committed, \* the committed rows of id_count, which a second connection reads
    saved,    \* Users/<user_id>/dirTreeHandler.json of the live user
    pc,       \* the id whose decrement has executed its update and not its delete
    seen      \* what the last read of a concurrent reader gave

\* ledger holds the rows as the connection of the live instance sees them.
\* committed, saved, pc and seen are followed by SpecLedger and SpecStore;
\* Spec and SpecClock close every instance with store_change and run no
\* second connection, and leave the four as they are.
vars == <<heap, cur, curp, clock, ledger, blobs, user, docs, committed, saved, pc, seen>>

\* the nodes of a heap in preorder, children in the order of NameSeq
RECURSIVE PreOrder(_, _)
RECURSIVE PreOrderKids(_, _, _)
PreOrderKids(hp, id, i) ==
    IF i > Len(NameSeq) THEN <<>>
    ELSE (IF NameSeq[i] \in DOMAIN hp[id].content
          THEN PreOrder(hp, hp[id].content[NameSeq[i]]) ELSE <<>>)
         \o PreOrderKids(hp, id, i + 1)
PreOrder(hp, id) == <<id>> \o PreOrderKids(hp, id, 1)

\* Node identifiers are object identities and carry no information: after
\* every call the heap is renumbered in preorder and the objects that are
\* referenced neither from the root nor from self._current_dir are dropped.
\* (self._old_dir is overwritten by __save at the start of every public
\* method before it is read, so it is not kept between calls.)
Normalize(hp, c) ==
    LET fromRoot == PreOrder(hp, 0)
        inRoot == {fromRoot[i] : i \in 1..Len(fromRoot)}
        order == IF c \in inRoot THEN fromRoot ELSE fromRoot \o PreOrder(hp, c)
        idx(id) == (CHOOSE i \in 1..Len(order) : order[i] = id) - 1
    IN [heap |-> [k \in 0..(Len(order) - 1) |->
                    [hp[order[k + 1]] EXCEPT
                        !.content = [n \in DOMAIN hp[order[k + 1]].content |->
                                        idx(hp[order[k + 1]].content[n])]]],
        cur |-> idx(c)]

\* the tree document json.dump(self._dir_tree) writes
TreeDocument(hp) == Normalize(hp, 0).heap

\* the live instance as the record v the methods work on; tick says before
\* which clock read of the call the minute changes (0: it does not)
Live(tick) ==
    [h |-> [heap |-> heap, cur |-> cur, curp |-> curp, old |-> cur, oldp |-> curp,
            clock |-> clock, tick |-> tick],
     ledger |-> ledger, blobs |-> blobs]

NodeCount(hp) == Cardinality(DOMAIN hp) - 1
RECURSIVE SumNodes(_, _)
SumNodes(dcs, us) ==
    IF us = {} THEN 0
    ELSE LET u == CHOOSE u \in us : TRUE IN NodeCount(dcs[u]) + SumNodes(dcs, us \ {u})

\* A client is the part of the interface a run exercises: the node budget of
\* its trees, the tick choices of its calls, the metadata it writes, the
\* outer paths it imports and the digests it registers.
Client(nodes, ticks, metadata, imports, digests) ==
    [nodes |-> nodes, ticks |-> ticks, metadata |-> metadata,
     imports |-> imports, digests |-> digests]

\* the effect of a call with the result res
Apply(res, c) ==
    \E r \in {res} : \E n \in {Normalize(r.h.heap, r.h.cur)} :
    /\ NodeCount(n.heap) + SumNodes(docs, DOMAIN docs) <= c.nodes
    /\ \A d \in DOMAIN r.ledger : r.ledger[d] <= MaxCount
    /\ heap' = n.heap
    /\ cur' = n.cur
    /\ curp' = r.h.curp
    /\ clock' = r.h.clock
    /\ ledger' = r.ledger
    /\ blobs' = r.blobs
    /\ UNCHANGED <<user, docs, committed, saved, pc, seen>>

\* ------------------------------------------------------------------------
\* Inputs
\* ------------------------------------------------------------------------
MaxTick == 1
Ticks == 0..MaxTick
\* a tick changes nothing once the clock has reached MaxClock
TicksNow(c) == IF clock < MaxClock THEN c.ticks ELSE {0}

\* list paths: nothing, one name, and the second name under the first,
\* relative and absolute
RelListPaths == {<<>>} \cup {<<n>> : n \in Names} \cup {<<NameSeq[1], NameSeq[2]>>}
ListPaths == RelListPaths \cup {<<"/">> \o p : p \in RelListPaths}
\* their textual forms, plus a trailing separator and an invalid text
InnerPaths == {ConvertListPathToInnerPath(p) : p \in ListPaths}
                 \cup {<<"a", Sep>>, <<Sep, Sep>>}

MetadataInputs == {EmptyFn, [k |-> 7]}
\* the outer paths handed to copy_from_outside
ImportPaths == {"f1", "f2", "d", "ds", "up", EntityFilePath, "none"}

\* no decrement under way, and no read made yet
NoId == ""
NoRead == [id |-> NoId, err |-> "", count |-> 0, zero |-> FALSE]

Init ==
    /\ heap = EmptyTree
    /\ cur = 0
    /\ curp = <<"/">>
    /\ clock = 0
    /\ ledger = EmptyFn
    /\ blobs = EmptyFn
    /\ user = "u1"
    /\ docs = [u \in Users \ {user} |-> EmptyTree]
    /\ committed = EmptyFn
    /\ saved = EmptyTree
    /\ pc = NoId
    /\ seen = NoRead

ChdirAction(c) == \E p \in InnerPaths : Apply(VfsChdir(Live(0), p), c)
ModifyMetadataAction(c) ==
    \E p \in InnerPaths, m \in c.metadata, k \in TicksNow(c) :
        Apply(VfsModifyMetadataOfPath(Live(k), p, m), c)
MkdirAction(c) == \E p \in InnerPaths, k \in TicksNow(c) : Apply(VfsMkdir(Live(k), p), c)
CopyFromOutsideAction(c) ==
    \E o \in c.imports, p \in InnerPaths, k \in TicksNow(c) :
        Apply(VfsCopyFromOutside(Live(k), o, p), c)
AddFileViaHashValueAction(c) ==
    \E p \in InnerPaths, d \in c.digests, k \in TicksNow(c) :
        Apply(VfsAddFileViaHashValue(Live(k), p, d), c)
MoveAction(c) ==
    \E s \in InnerPaths, d \in InnerPaths, k \in TicksNow(c) :
        Apply(VfsMove(Live(k), s, d), c)
CopyAction(c) ==
    \E s \in InnerPaths, d \in InnerPaths, k \in TicksNow(c) :
        Apply(VfsCopy(Live(k), s, d), c)
DeleteAction(c) == \E p \in InnerPaths, k \in TicksNow(c) : Apply(VfsDelete(Live(k), p), c)

\* store_change of the live instance (with-exit), then VirtualFileSystem(root, u).
\* The document of the live user is rewritten by store_change before it is
\* read again, so only the documents of the other users are kept.
ReopenAction ==
    \E u \in Users :
        /\ user' = u
        /\ docs' = [w \in Users \ {u} |-> IF w = user THEN TreeDocument(heap) ELSE docs[w]]
        /\ heap' = IF u = user THEN TreeDocument(heap) ELSE docs[u]
        /\ cur' = 0
        /\ curp' = <<"/">>
        /\ UNCHANGED <<clock, ledger, blobs, committed, saved, pc, seen>>

\* Users that share the root, one live instance at a time, import and
\* register files; all calls of the run fall into one minute.
Sharing == Client(MaxNodes, {0}, {EmptyFn}, ImportPaths, Digests)

Next ==
    \/ ChdirAction(Sharing)
    \/ ModifyMetadataAction(Sharing)
    \/ MkdirAction(Sharing)
    \/ CopyFromOutsideAction(Sharing)
    \/ AddFileViaHashValueAction(Sharing)
    \/ MoveAction(Sharing)
    \/ CopyAction(Sharing)
    \/ DeleteAction(Sharing)
    \/ ReopenAction

Spec == Init /\ [][Next]_vars

\* One user works on directories and on imports of one outer file while the
\* clock runs; the metadata written may carry a user field.
Timed == Client(MaxNodes, Ticks, MetadataInputs, {"f1"}, {})

NextClock ==
    \/ ChdirAction(Timed)
    \/ ModifyMetadataAction(Timed)
    \/ MkdirAction(Timed)
    \/ CopyFromOutsideAction(Timed)
    \/ MoveAction(Timed)
    \/ CopyAction(Timed)
    \/ DeleteAction(Timed)

SpecClock == Init /\ [][NextClock]_vars

\* ------------------------------------------------------------------------
\* Vocabulary of the properties
\* ------------------------------------------------------------------------
\* the nodes of the tree of a heap (those reachable from the root)
TreeIds(hp) == {PreOrder(hp, 0)[i] : i \in 1..Len(PreOrder(hp, 0))}
\* the file nodes of a tree that are bound to digest d
BoundNodes(hp, d) == {i \in TreeIds(hp) : ~hp[i].is_dir /\ hp[i].hash = d}
RECURSIVE BoundInDocs(_, _, _)
BoundInDocs(dcs, us, d) ==
    IF us = {} THEN 0
    ELSE LET u == CHOOSE u \in us : TRUE
         IN Cardinality(BoundNodes(dcs[u], d)) + BoundInDocs(dcs, us \ {u}, d)
\* the number of file nodes bound to d over the trees of all users
References(d) == Cardinality(BoundNodes(heap, d)) + BoundInDocs(docs, DOMAIN docs, d)
\* the ledger count of d, 0 when there is no row
Count(l, d) == IF d \in DOMAIN l THEN l[d] ELSE 0

\* C1: in every reachable state, for every digest d, the ledger count of d
\* (0 without a row) is the number of file nodes bound to d in the trees of
\* all users.
C1_CountIsReferences == \A d \in Digests : Count(ledger, d) = References(d)

\* C2: in every reachable state every file node bound to a digest d has a
\* ledger row for d with count >= 1 and a blob named d in EntityFiles.
C2_BoundNodeHasRowAndBlob ==
    \A d \in Digests : References(d) > 0 => (Count(ledger, d) >= 1 /\ d \in DOMAIN blobs)

\* C3: after every operation every digest with a ledger row has a count >= 1
\* and its blob in EntityFiles (a count brought to zero takes the row and the
\* blob away within the operation).
C3_RowHasBlob == \A d \in DOMAIN ledger : ledger[d] >= 1 /\ d \in DOMAIN blobs

\* ------------------------------------------------------------------------
\* Vocabulary of the properties about single calls.  A property about a call
\* is stated over every reachable state and every input of the call: the
\* result of the call on the live instance is compared with the state.
\* ------------------------------------------------------------------------
\* the live instance after a call with result r
After(r) == [h |-> [r.h EXCEPT !.tick = 0], ledger |-> r.ledger, blobs |-> r.blobs]
\* the list form of a valid textual path
ListOf(p) == ConvertInnerPathToListPath(p).val
\* the absolute form of a list path against the directory path cwd
AbsPath(cwd, lp) == IF lp = <<>> THEN cwd ELSE IF lp[1] = "/" THEN lp ELSE cwd \o lp

RECURSIVE Walk(_, _, _)
Walk(hp, id, names) ==
    IF names = <<>> THEN {id}
    ELSE IF hp[id].is_dir /\ Head(names) \in DOMAIN hp[id].content
         THEN Walk(hp, hp[id].content[Head(names)], Tail(names))
         ELSE {}
\* the nodes an absolute list path resolves to from the root: one or none
Resolve(hp, abs) == IF abs = <<>> \/ abs[1] # "/" THEN {} ELSE Walk(hp, 0, Tail(abs))

\* the absolute paths of the nodes of the tree
RECURSIVE PathsFrom(_, _, _)
PathsFrom(hp, id, prefix) ==
    {prefix} \cup UNION {PathsFrom(hp, hp[id].content[n], prefix \o <<n>>) : n \in DOMAIN hp[id].content}
TreePaths(hp) == PathsFrom(hp, 0, <<"/">>)

\* structure, names and digests of the subtree at a node
RECURSIVE Shape(_, _)
Shape(hp, id) ==
    [is_dir |-> hp[id].is_dir, hash |-> hp[id].hash,
     content |-> [n \in DOMAIN hp[id].content |-> Shape(hp, hp[id].content[n])]]

ImportFiles == {o \in ImportPaths : OsPathIsFile(blobs, o)}
\* no blob, no row and no file node of digest d
NewDigest(d) == d \notin DOMAIN blobs /\ d \notin DOMAIN ledger /\ References(d) = 0
\* the references to d when the live tree is hp
ReferencesWith(hp, d) == Cardinality(BoundNodes(hp, d)) + BoundInDocs(docs, DOMAIN docs, d)

\* C4: a successful copy_from_outside of a file whose digest has a blob adds
\* no blob and raises the count of the digest by one, the other rows kept;
\* two successful imports of the bytes of a digest new to the root leave one
\* blob of it, count 2 and two file nodes bound to it.
C4_ImportOfKnownBytes ==
    \A o \in ImportFiles, p \in InnerPaths :
        LET d == CalculateFileHash(blobs, o)
            r == VfsCopyFromOutside(Live(0), o, p)
        IN /\ (d \in DOMAIN blobs /\ r.err = "ok")
                => /\ r.blobs = blobs
                   /\ Count(r.ledger, d) = Count(ledger, d) + 1
                   /\ \A e \in Digests \ {d} : Count(r.ledger, e) = Count(ledger, e)
           /\ (NewDigest(d) /\ r.err = "ok")
                => \A q \in InnerPaths :
                      LET r2 == VfsCopyFromOutside(After(r), o, q) IN
                      r2.err = "ok"
                        => /\ DOMAIN r2.blobs = DOMAIN blobs \cup {d}
                           /\ r2.blobs[d] = d
                           /\ Count(r2.ledger, d) = 2
                           /\ ReferencesWith(r2.h.heap, d) = 2

\* the file leaves bound to d in the subtree at node id
LeavesUnder(hp, id, d) == Cardinality({i \in SubtreeIds(hp, id) : ~hp[i].is_dir /\ hp[i].hash = d})

\* C5: a successful delete(p) lowers the count of every digest d by the
\* number of file leaves under p bound to d, removes the row and the blob of
\* the digests whose count reaches zero, keeps every other blob, and removes
\* the subtree at p.
C5_DeleteReleasesLeaves ==
    \A p \in InnerPaths :
        LET r == VfsDelete(Live(0), p)
            abs == AbsPath(curp, ListOf(p))
            at == Resolve(heap, abs)
        IN r.err = "ok"
            => /\ at # {}
               /\ Resolve(r.h.heap, abs) = {}
               /\ \A id \in at, d \in Digests :
                    /\ Count(r.ledger, d) = Count(ledger, d) - LeavesUnder(heap, id, d)
                    /\ (LeavesUnder(heap, id, d) > 0 /\ Count(r.ledger, d) = 0) => d \notin DOMAIN r.blobs
                    /\ (LeavesUnder(heap, id, d) = 0 \/ Count(r.ledger, d) >= 1)
                            => (d \in DOMAIN r.blobs <=> d \in DOMAIN blobs)

\* what a call did to the handler, and the exception it raised
Outcome(r) == [h |-> r.h, err |-> r.err]
\* the calls that create an entry of the tree
CreatingCalls(T) ==
    {Outcome(VfsMkdir(Live(k), p)) : p \in InnerPaths, k \in T}
    \cup {Outcome(VfsCopyFromOutside(Live(k), o, p)) : o \in ImportPaths, p \in InnerPaths, k \in T}
    \cup {Outcome(VfsAddFileViaHashValue(Live(k), p, d)) : p \in InnerPaths, d \in Digests, k \in T}
    \cup {Outcome(VfsCopy(Live(k), p, q)) : p \in InnerPaths, q \in InnerPaths, k \in T}
\* the calls of the operations other than chdir
OtherCalls(T) ==
    CreatingCalls(T)
    \cup {Outcome(VfsMove(Live(k), p, q)) : p \in InnerPaths, q \in InnerPaths, k \in T}
    \cup {Outcome(VfsDelete(Live(k), p)) : p \in InnerPaths, k \in T}
    \cup {Outcome(VfsModifyMetadataOfPath(Live(k), p, m)) : p \in InnerPaths, m \in MetadataInputs, k \in T}
    \cup {[h |-> IsPathExists(Live(k).h, lp).h, err |-> "ok"] : lp \in ListPaths, k \in T}
    \cup {Outcome(GetMetadataOfPath(Live(k).h, lp)) : lp \in ListPaths, k \in T}
    \cup {Outcome(GetDirContent(Live(k).h, lp)) : lp \in ListPaths, k \in T}
    \cup {Outcome(GetFileHash(Live(k).h, lp)) : lp \in ListPaths, k \in T}
    \cup {Outcome(IsDir(Live(k).h, lp)) : lp \in ListPaths, k \in T}
AllCalls(T) == OtherCalls(T) \cup {Outcome(VfsChdir(Live(0), p)) : p \in InnerPaths}

\* C6: no operation other than chdir changes the cursor, whether it returns
\* or raises: the current directory and its path are those before the call.
C6_OnlyChdirMovesCursor ==
    \A c \in OtherCalls({0}) : c.h.cur = cur /\ c.h.curp = curp

\* C7: an operation that raises leaves the tree as it was: nodes, names,
\* metadata with the timestamps, digests.
C7_RaisingCallKeepsTree ==
    \A c \in AllCalls(Ticks) : c.err # "ok" => TreeDocument(c.h.heap) = TreeDocument(heap)

\* every path of the set resolves in hp to the node it resolves to now
Kept(hp, paths) == \A q \in paths : Resolve(hp, q) = Resolve(heap, q)

\* C8: after a successful mkdir, copy, move, add_file_via_hash_value or
\* copy_from_outside every node that was in the tree before the call, the
\* source of a move apart, is still at its path.
C8_NoOverwrite ==
    /\ \A c \in CreatingCalls({0}) : c.err = "ok" => Kept(c.h.heap, TreePaths(heap))
    /\ \A s \in InnerPaths, d \in InnerPaths :
            LET r == VfsMove(Live(0), s, d) IN
            r.err = "ok"
              => Kept(r.h.heap, {q \in TreePaths(heap) : ~IsPrefix(AbsPath(curp, ListOf(s)), q)})

\* C9: after a successful move(src, dst) src resolves no more, dst taken
\* against the current directory of before the call resolves to the node
\* that was at src, its subtree unchanged, and every path outside src and
\* dst resolves as before.
C9_MoveRelocates ==
    \A s \in InnerPaths, d \in InnerPaths :
        LET r == VfsMove(Live(0), s, d)
            sa == AbsPath(curp, ListOf(s))
            da == AbsPath(curp, ListOf(d))
            at == Resolve(heap, sa)
            outside(q) == ~IsPrefix(sa, q) /\ ~IsPrefix(da, q)
        IN r.err = "ok"
            => /\ at # {}
               /\ Resolve(r.h.heap, sa) = {}
               /\ Resolve(r.h.heap, da) = at
               /\ \A id \in at : Shape(r.h.heap, id) = Shape(heap, id)
               /\ \A q \in TreePaths(heap) \cup TreePaths(r.h.heap) :
                      outside(q) => Resolve(r.h.heap, q) = Resolve(heap, q)

\* C10: after a successful copy(src, dst) dst resolves to a subtree of new
\* nodes with the structure, names and digests of the subtree at src, the
\* subtree at src is as before, and every path other than dst and the paths
\* below it resolves as before.
C10_CopyDuplicates ==
    \A s \in InnerPaths, d \in InnerPaths :
        LET r == VfsCopy(Live(0), s, d)
            sa == AbsPath(curp, ListOf(s))
            da == AbsPath(curp, ListOf(d))
            at == Resolve(heap, sa)
            new == Resolve(r.h.heap, da)
        IN r.err = "ok"
            => /\ at # {}
               /\ new # {}
               /\ \A id \in at, n \in new :
                      /\ SubtreeIds(r.h.heap, n) \cap DOMAIN heap = {}
                      /\ Shape(r.h.heap, n) = Shape(heap, id)
                      /\ Shape(r.h.heap, id) = Shape(heap, id)
               /\ Resolve(r.h.heap, sa) = at
               /\ \A q \in TreePaths(heap) \cup TreePaths(r.h.heap) :
                      ~IsPrefix(da, q) => Resolve(r.h.heap, q) = Resolve(heap, q)

\* the tree, the cursor and the clock of the handler are those of the state
SameHandler(h) == h.heap = heap /\ h.cur = cur /\ h.curp = curp /\ h.clock = clock
\* tree, cursor, ledger and object store after a call are those of the state
SameAll(r) == SameHandler(r.h) /\ r.ledger = ledger /\ r.blobs = blobs

\* C11: DirTreeHandler.move and DirTreeHandler.copy raise InvalidOperation
\* and leave tree and cursor as they were whenever the absolute form of src
\* is a prefix of the absolute form of dst, for relative and absolute forms
\* of both paths; VirtualFileSystem.move and copy, which test first whether
\* dst exists, raise PathExists or InvalidOperation for such paths and leave
\* tree, cursor, ledger and object store as they were.
C11_DestinationInsideSource ==
    \A s \in ListPaths, d \in ListPaths :
        IsPrefix(AbsPath(curp, s), AbsPath(curp, d))
          => /\ \A r \in {Move(Live(0).h, s, d), Copy(Live(0).h, s, d)} :
                    r.err = "InvalidOperation" /\ SameHandler(r.h)
             /\ \A r \in {VfsMove(Live(0), ConvertListPathToInnerPath(s), ConvertListPathToInnerPath(d)),
                           VfsCopy(Live(0), ConvertListPathToInnerPath(s), ConvertListPathToInnerPath(d))} :
                    /\ r.err = (IF IsPathExists(Live(0).h, d).ok THEN "PathExists" ELSE "InvalidOperation")
                    /\ SameAll(r)

\* the directory /a exists and the copy and the move of a, given relative,
\* to /a/b, given absolute, are refused as a destination inside the source
C11_Witness ==
    /\ curp = <<"/">>
    /\ \E id \in Resolve(heap, <<"/", "a">>) : heap[id].is_dir
    /\ Copy(Live(0).h, <<"a">>, <<"/", "a", "b">>).err = "InvalidOperation"
    /\ VfsMove(Live(0), <<"a">>, <<"/", "a", "/", "b">>).err = "InvalidOperation"

\* C12: DirTreeHandler.move and DirTreeHandler.copy raise and leave the tree
\* as it was whenever the absolute form of src or of dst is the path of the
\* current directory or a prefix of it, the path given relative or absolute.
C12_CurrentDirIsNoEndpoint ==
    \A s \in ListPaths, d \in ListPaths :
        (IsPrefix(AbsPath(curp, s), curp) \/ IsPrefix(AbsPath(curp, d), curp))
          => \A r \in {Move(Live(0).h, s, d), Copy(Live(0).h, s, d)} :
                r.err # "ok" /\ TreeDocument(r.h.heap) = TreeDocument(heap)

\* C13: delete(p) raises InvalidCurrentDirOperation and leaves tree, cursor,
\* ledger and object store as they were whenever p is the empty path or its
\* absolute form is the path of the current directory.
C13_DeleteOfCurrentDir ==
    \A p \in InnerPaths :
        (ConvertInnerPathToListPath(p).err = "ok" /\ AbsPath(curp, ListOf(p)) = curp)
          => LET r == VfsDelete(Live(0), p)
             IN r.err = "InvalidCurrentDirOperation" /\ SameAll(r)

\* the outer regular files and directories that exist outside the system root
OutsidePaths == {o \in DOMAIN OuterFS : OuterFS[o].kind \in {"file", "dir"} /\ ~OuterFS[o].link /\ ~OuterFS[o].over_root}

\* C14: copy_from_outside(outer, inner) of an outer file or directory raises
\* PathExists when inner resolves and DirOfPathNotExists when the parent of
\* inner does not resolve, and a call that raises one of the two leaves tree,
\* cursor, ledger and object store as they were.
C14_ImportChecksFirst ==
    \A o \in OutsidePaths, p \in InnerPaths :
        (ConvertInnerPathToListPath(p).err = "ok" /\ ListOf(p) # <<>>)
          => LET r == VfsCopyFromOutside(Live(0), o, p)
                 abs == AbsPath(curp, ListOf(p))
             IN /\ Resolve(heap, abs) # {} => r.err = "PathExists"
                /\ (Len(abs) > 1 /\ Resolve(heap, Front(abs)) = {}) => r.err = "DirOfPathNotExists"
                /\ r.err \in {"PathExists", "DirOfPathNotExists"} => SameAll(r)

\* C15: copy_from_outside of an outer path that lies under the system root
\* (a blob of <root>/EntityFiles) raises InvalidOperation and leaves tree,
\* cursor, ledger and object store as they were, whatever the inner path.
C15_ImportFromUnderRoot ==
    \A p \in InnerPaths :
        OsPathExists(blobs, EntityFilePath)
          => LET r == VfsCopyFromOutside(Live(0), EntityFilePath, p)
             IN r.err = "InvalidOperation" /\ SameAll(r)

\* the entries of an outer directory that are regular files or directories
\* themselves, not links to them
RegularEntries(o) ==
    {n \in DOMAIN OuterFS[o].entries :
        LET e == OuterFS[OuterFS[o].entries[n]] IN e.kind \in {"file", "dir"} /\ ~e.link}
\* the tree an outer path is to be imported as
RECURSIVE OuterShape(_)
OuterShape(o) ==
    IF OuterFS[o].kind = "dir"
    THEN [is_dir |-> TRUE, hash |-> NoHash,
          content |-> [n \in RegularEntries(o) |-> OuterShape(OuterFS[o].entries[n])]]
    ELSE [is_dir |-> FALSE, hash |-> OuterFS[o].bytes, content |-> EmptyFn]
\* the file leaves of a shape that are bound to d
RECURSIVE ShapeLeaves(_, _)
ShapeLeaves(sh, d) ==
    IF ~sh.is_dir THEN (IF sh.hash = d THEN 1 ELSE 0)
    ELSE LET ns == DOMAIN sh.content
             Sum[S \in SUBSET ns] ==
                 IF S = {} THEN 0
                 ELSE LET n == CHOOSE n \in S : TRUE
                      IN ShapeLeaves(sh.content[n], d) + Sum[S \ {n}]
         IN Sum[ns]
\* the outer directories that exist outside the system root
OutsideDirs == {o \in OutsidePaths : OuterFS[o].kind = "dir"}

\* C16: a successful copy_from_outside of an outer directory puts at the
\* inner path one directory node per outer directory and one file node,
\* bound to the digest of its bytes, per regular file, and nothing for a
\* symlink or another non-regular entry; the count of every digest grows by
\* the number of regular files of that digest.
C16_ImportSkipsNonRegular ==
    \A o \in OutsideDirs, p \in InnerPaths :
        LET r == VfsCopyFromOutside(Live(0), o, p) IN
        r.err = "ok"
          => /\ \E id \in Resolve(r.h.heap, AbsPath(curp, ListOf(p))) :
                    Shape(r.h.heap, id) = OuterShape(o)
             /\ \A d \in Digests : Count(r.ledger, d) = Count(ledger, d) + ShapeLeaves(OuterShape(o), d)

\* C17: a successful add_file_via_hash_value(path, d) leaves at path a file
\* node bound to d, raises the count of d by one and keeps the other rows and
\* the object store; the call raises and leaves tree, cursor, ledger and
\* object store as they were when there is no blob named d or when path
\* resolves already.
C17_AddFileViaHashValue ==
    \A p \in InnerPaths, d \in Digests :
        ConvertInnerPathToListPath(p).err = "ok"
          => LET r == VfsAddFileViaHashValue(Live(0), p, d)
                 abs == AbsPath(curp, ListOf(p))
             IN /\ r.err = "ok"
                     => /\ \E id \in Resolve(r.h.heap, abs) :
                               ~r.h.heap[id].is_dir /\ r.h.heap[id].hash = d
                        /\ Count(r.ledger, d) = Count(ledger, d) + 1
                        /\ \A e \in Digests \ {d} : Count(r.ledger, e) = Count(ledger, e)
                        /\ r.blobs = blobs
                /\ (d \notin DOMAIN blobs \/ Resolve(heap, abs) # {})
                     => r.err # "ok" /\ SameAll(r)

\* C18: sub_quote_count_for_id(d) on a row of the ledger lowers its count by
\* one, returns True exactly when the count was 1 and the row is gone, False
\* exactly when the row stays with a count >= 1, and keeps every other row.
C18_DecrementOfRow ==
    \A d \in DOMAIN ledger :
        LET r == SubQuoteCountForId(ledger, d) IN
        /\ r.err = "ok"
        /\ Count(r.ledger, d) = ledger[d] - 1
        /\ r.ret <=> ledger[d] = 1
        /\ r.ret <=> d \notin DOMAIN r.ledger
        /\ ~r.ret <=> (d \in DOMAIN r.ledger /\ r.ledger[d] >= 1)
        /\ \A e \in DOMAIN ledger \ {d} : e \in DOMAIN r.ledger /\ r.ledger[e] = ledger[e]
        /\ DOMAIN r.ledger \subseteq DOMAIN ledger

\* one row with count 1, whose decrement returns True, beside one row with
\* count 2, whose decrement returns False
C18_Witness ==
    /\ DOMAIN ledger = {"h1", "h2"}
    /\ ledger["h1"] = 1 /\ SubQuoteCountForId(ledger, "h1").ret
    /\ ledger["h2"] = 2 /\ ~SubQuoteCountForId(ledger, "h2").ret

\* C19: sub_quote_count_for_id(d) without a row for d raises
\* CounterNotExists, returns no boolean, and leaves the ledger as it was.
C19_DecrementWithoutRow ==
    \A d \in Digests \ DOMAIN ledger :
        LET r == SubQuoteCountForId(ledger, d) IN
        r.err = "CounterNotExists" /\ r.ledger = ledger

\* the ledgers one call of the CountManager leads to
LedgerSteps ==
    {CreateQuoteCountForId(ledger, d).ledger : d \in Digests}
    \cup {AddQuoteCountForId(ledger, d).ledger : d \in Digests}
    \cup {SubQuoteCountForId(ledger, d).ledger : d \in Digests}

\* C20: every row of the ledger has a count > 0, in every reachable state
\* and after every further create, increment or decrement of any digest.
C20_RowsArePositive ==
    \A l \in {ledger} \cup LedgerSteps : \A d \in DOMAIN l : l[d] > 0

\* a row with count 1 that its decrement takes away, beside a row with
\* count 2 that its decrement leaves with count 1
C20_Witness ==
    /\ DOMAIN ledger = {"h1", "h2"}
    /\ ledger["h1"] = 2 /\ SubQuoteCountForId(ledger, "h1").ledger["h1"] = 1
    /\ ledger["h2"] = 1 /\ DOMAIN SubQuoteCountForId(ledger, "h2").ledger = {"h1"}

\* the longest sequence of CountManager calls a property follows
MaxCalls == 3
LedgerOps == {"create", "add", "sub"}
LedgerOpSeqs == UNION {[1..n -> LedgerOps] : n \in 0..MaxCalls}
\* one call of the CountManager on the row of d
LedgerCall(l, d, op) ==
    IF op = "create" THEN CreateQuoteCountForId(l, d)
    ELSE IF op = "add" THEN AddQuoteCountForId(l, d)
    ELSE [ledger |-> SubQuoteCountForId(l, d).ledger, err |-> SubQuoteCountForId(l, d).err]
\* the same call on a reference counter n (0: no reference)
CounterCall(n, op) ==
    IF op = "create" THEN (IF n = 0 THEN [n |-> 1, err |-> "ok"] ELSE [n |-> n, err |-> "CounterExists"])
    ELSE IF op = "add" THEN [n |-> n + 1, err |-> "ok"]
    ELSE [n |-> n - 1, err |-> "ok"]
\* the ledger l shows the counter n for d, and keeps showing the reference
\* counter along the calls ops (a decrement is followed only on a row)
RECURSIVE FollowsCounter(_, _, _, _)
FollowsCounter(l, d, n, ops) ==
    /\ d \in DOMAIN l <=> n > 0
    /\ GetQuoteCountForId(l, d) = (IF n > 0 THEN [val |-> n, err |-> "ok"]
                                   ELSE [val |-> 0, err |-> "CounterNotExists"])
    /\ \/ ops = <<>>
       \/ Head(ops) = "sub" /\ n = 0
       \/ LET r == LedgerCall(l, d, Head(ops))
              c == CounterCall(n, Head(ops))
          IN /\ r.err = c.err
             /\ \A e \in (DOMAIN l \cup DOMAIN r.ledger) \ {d} :
                    e \in DOMAIN l /\ e \in DOMAIN r.ledger /\ r.ledger[e] = l[e]
             /\ FollowsCounter(r.ledger, d, c.n, Tail(ops))

\* C21: from every ledger the system reaches and for every digest d, along
\* every sequence of create, increment and decrement calls the row of d is
\* a reference counter: create sets 1 or raises CounterExists on a row,
\* increment adds 1 or creates the row at 1, get returns the count, a count
\* brought to 0 takes the row away so that get raises CounterNotExists, and
\* the rows of the other digests are not touched.
C21_LedgerIsCounterMap ==
    \A d \in Digests, ops \in LedgerOpSeqs : FollowsCounter(ledger, d, Count(ledger, d), ops)

\* no row for h1 beside a row for h2: create then increment of h1 gives 2,
\* two decrements take the row away, and a create on the row of h2 is refused
C21_Witness ==
    /\ DOMAIN ledger = {"h2"}
    /\ GetQuoteCountForId(AddQuoteCountForId(CreateQuoteCountForId(ledger, "h1").ledger, "h1").ledger, "h1").val = 2
    /\ GetQuoteCountForId(SubQuoteCountForId(AddQuoteCountForId(ledger, "h1").ledger, "h1").ledger, "h1").err
            = "CounterNotExists"
    /\ CreateQuoteCountForId(ledger, "h2").err = "CounterExists"

\* ------------------------------------------------------------------------
\* VirtualFileSystem.compare_two_dir.  files_dict is the sequence of its
\* (key, value) pairs; the names of a directory are visited in the order of
\* NameSeq.  The result is the sequence of the lines of the returned text,
\* a line being its sign and its path.
\* ------------------------------------------------------------------------
\* __join_two_inner_paths
JoinTwoInnerPaths(path1, path2) ==
    IF path1 = <<>> THEN path2
    ELSE IF Last(path1) = Sep THEN path1 \o path2
    ELSE path1 \o <<Sep>> \o path2

\* files_dict[key] = value
FilesDictSet(files, key, value) ==
    IF \E i \in 1..Len(files) : files[i].key = key
    THEN [i \in 1..Len(files) |-> IF files[i].key = key THEN [key |-> key, value |-> value] ELSE files[i]]
    ELSE Append(files, [key |-> key, value |-> value])

\* VirtualFileSystem.chdir on the handler alone
ChdirText(h, dir_path) ==
    Let(ConvertInnerPathToListPath(dir_path), LAMBDA p :
    IF p.err # "ok" THEN Res(h, p.err) ELSE Chdir(h, p.val))

RECURSIVE AddFileInfoInDir(_, _, _, _)
RECURSIVE AddFileInfoItems(_, _, _, _, _)

\* the loop `for item in self.get_dir_content(...)` of add_file_info_in_dir
AddFileInfoItems(h, contents, i, current_relative_path, files) ==
    IF i > Len(NameSeq) THEN [h |-> h, err |-> "ok", files |-> files]
    ELSE LET item == NameSeq[i] IN
         IF item \notin contents
         THEN AddFileInfoItems(h, contents, i + 1, current_relative_path, files)
         ELSE Let(IsDir(h, <<item>>), LAMBDA isd :
              IF isd.err # "ok" THEN [h |-> isd.h, err |-> isd.err, files |-> files]
              ELSE Let(IF isd.val
                       THEN AddFileInfoInDir(isd.h, <<item>>,
                                             JoinTwoInnerPaths(current_relative_path, <<item>>), files)
                       ELSE Let(GetFileHash(isd.h, <<item>>), LAMBDA fh :
                            [h |-> fh.h, err |-> fh.err,
                             files |-> IF fh.err # "ok" THEN files
                                       ELSE FilesDictSet(files,
                                                JoinTwoInnerPaths(current_relative_path, <<item>>),
                                                fh.val)]), LAMBDA r :
                   IF r.err # "ok" THEN r
                   ELSE AddFileInfoItems(r.h, contents, i + 1, current_relative_path, r.files)))

\* add_file_info_in_dir: the try part, then `finally: self.chdir(current_dir_path)`
AddFileInfoInDir(h, dir_path, current_relative_path, files) ==
    Let(ConvertListPathToInnerPath(GetCurrentDirPath(h)), LAMBDA current_dir_path :
    Let(Let(ChdirText(h, dir_path), LAMBDA c :
            IF c.err # "ok" THEN [h |-> c.h, err |-> c.err, files |-> files]
            ELSE Let(ConvertInnerPathToListPath(ConvertListPathToInnerPath(GetCurrentDirPath(c.h))), LAMBDA p :
                 IF p.err # "ok" THEN [h |-> c.h, err |-> p.err, files |-> files]
                 ELSE Let(GetDirContent(c.h, p.val), LAMBDA g :
                      IF g.err # "ok" THEN [h |-> g.h, err |-> g.err, files |-> files]
                      ELSE AddFileInfoItems(g.h, g.val, 1, current_relative_path, files)))), LAMBDA body :
    Let(ChdirText(body.h, current_dir_path), LAMBDA fin :
    [h |-> fin.h, err |-> IF fin.err # "ok" THEN fin.err ELSE body.err, files |-> body.files])))

\* get_files_in_dir
GetFilesInDir(h, dir_path) == AddFileInfoInDir(h, dir_path, <<>>, <<>>)

\* the value of key in files_dict, NoHash without the key
FilesDictGet(files, key) ==
    IF \E i \in 1..Len(files) : files[i].key = key
    THEN files[CHOOSE i \in 1..Len(files) : files[i].key = key].value
    ELSE NoHash
\* the lines of one of the two loops of compare_two_dir
RECURSIVE DiffLines(_, _, _, _)
DiffLines(sign, mine, other, i) ==
    IF i > Len(mine) THEN <<>>
    ELSE (IF FilesDictGet(other, mine[i].key) # mine[i].value
          THEN <<[sign |-> sign, path |-> mine[i].key]>> ELSE <<>>)
         \o DiffLines(sign, mine, other, i + 1)

\* compare_two_dir: [h, err, val]
CompareTwoDir(h, base_dir_path, patch_dir_path) ==
    Let(GetFilesInDir(h, base_dir_path), LAMBDA base_dict :
    IF base_dict.err # "ok" THEN [h |-> base_dict.h, err |-> base_dict.err, val |-> <<>>]
    ELSE Let(GetFilesInDir(base_dict.h, patch_dir_path), LAMBDA patch_dict :
         IF patch_dict.err # "ok" THEN [h |-> patch_dict.h, err |-> patch_dict.err, val |-> <<>>]
         ELSE [h |-> patch_dict.h, err |-> "ok",
               val |-> DiffLines("-", base_dict.files, patch_dict.files, 1)
                       \o DiffLines("+", patch_dict.files, base_dict.files, 1)]))

\* the file leaves below a node: relative textual path -> digest
RECURSIVE FilesBelow(_, _, _)
FilesBelow(hp, id, prefix) ==
    UNION {LET c == hp[id].content[n]
               q == IF prefix = <<>> THEN <<n>> ELSE prefix \o <<Sep, n>>
           IN IF hp[c].is_dir THEN FilesBelow(hp, c, q) ELSE {[key |-> q, value |-> hp[c].hash]}
           : n \in DOMAIN hp[id].content}
\* the paths of the files of F that G has not, or has with another digest
Unmatched(F, G) == {f.key : f \in F \ G}
\* the inner paths that resolve to a directory
DirPaths == {p \in InnerPaths : ConvertInnerPathToListPath(p).err = "ok"
                                 /\ \E id \in Resolve(heap, AbsPath(curp, ListOf(p))) : heap[id].is_dir}
DirAt(p) == CHOOSE id \in Resolve(heap, AbsPath(curp, ListOf(p))) : TRUE

\* C22: compare_two_dir(base, patch) of two directories returns, each once,
\* the lines '-p' for exactly the relative file paths p of base that patch
\* has not or binds to another digest, then the lines '+p' for exactly
\* those of patch that base has not or binds to another digest; the text is
\* empty exactly when both bind the same relative file paths to the same
\* digests, so that compare(A, A) is empty.
C22_CompareTwoDir ==
    \A b \in DirPaths, p \in DirPaths :
        LET r == CompareTwoDir(Live(0).h, b, p)
            B == FilesBelow(heap, DirAt(b), <<>>)
            P == FilesBelow(heap, DirAt(p), <<>>)
            minus == {i \in 1..Len(r.val) : r.val[i].sign = "-"}
            plus == {i \in 1..Len(r.val) : r.val[i].sign = "+"}
        IN /\ r.err = "ok"
           /\ {r.val[i].path : i \in minus} = Unmatched(B, P)
           /\ {r.val[i].path : i \in plus} = Unmatched(P, B)
           /\ Len(r.val) = Cardinality(Unmatched(B, P)) + Cardinality(Unmatched(P, B))
           /\ \A i \in minus, j \in plus : i < j
           /\ r.val = <<>> <=> B = P
           /\ b = p => r.val = <<>>

\* C23: in every reachable state the root directory has empty metadata, and
\* get_metadata_of_path of the root returns the empty map.
C23_RootHasNoMetadata ==
    /\ heap[0].metadata = EmptyFn
    /\ GetMetadataOfPath(Live(0).h, <<"/">>).val = EmptyFn

\* C24: modify_metadata_of_path(p, m) on a node other than the root, p
\* relative or absolute, returns normally and leaves as the metadata of the
\* node m with the creation time of before the call and the instant of the
\* call as last-modified time.
C24_SetMetadata ==
    \A p \in InnerPaths, m \in MetadataInputs :
        ConvertInnerPathToListPath(p).err = "ok"
          => \A id \in Resolve(heap, AbsPath(curp, ListOf(p))) \ {0} :
                LET r == VfsModifyMetadataOfPath(Live(0), p, m) IN
                /\ r.err = "ok"
                /\ r.h.heap[id].metadata
                      = DictSet(DictSet(m, create_time, heap[id].metadata[create_time]),
                                last_modify_time, clock)

\* C25: chdir(p) puts the cursor on the directory p resolves to, with the
\* absolute path of p as its path; it raises PathNotExists when p does not
\* resolve and PathIsNotDir when p resolves to a file, and then leaves the
\* cursor as it was; the tree is never changed.
C25_Chdir ==
    \A p \in InnerPaths :
        ConvertInnerPathToListPath(p).err = "ok"
          => LET r == VfsChdir(Live(0), p)
                 abs == AbsPath(curp, ListOf(p))
                 at == Resolve(heap, abs)
             IN /\ r.h.heap = heap
                /\ at = {} => r.err = "PathNotExists" /\ r.h.cur = cur /\ r.h.curp = curp
                /\ \A id \in at :
                      IF heap[id].is_dir
                      THEN r.err = "ok" /\ r.h.cur = id /\ r.h.curp = abs
                      ELSE r.err = "PathIsNotDir" /\ r.h.cur = cur /\ r.h.curp = curp

\* the textual paths of the inputs without two adjacent separators
ValidInnerPaths == {t \in InnerPaths : ~HasDoubleSep(t)}

\* C26: list path -> text -> list path is the identity on the valid list
\* paths, the path of the current directory among them, and text -> list path -> text is the identity on the valid textual
\* paths, a trailing separator and the forms '' and '/' included.
C26_PathConversionIsBijection ==
    /\ \A lp \in ListPaths \cup {curp} :
          ConvertInnerPathToListPath(ConvertListPathToInnerPath(lp)) = [val |-> lp, err |-> "ok"]
    /\ \A t \in ValidInnerPaths :
          /\ ConvertInnerPathToListPath(t).err = "ok"
          /\ ConvertListPathToInnerPath(ConvertInnerPathToListPath(t).val) = t

\* ------------------------------------------------------------------------
\* Filtered recursive copies
\* ------------------------------------------------------------------------
\* the extension lists handed to the filtered copies
TypeFilters == SUBSET {<<>>, <<"a">>, <<"t">>}
\* a name with a '.' is selected when what follows its last '.', lowercased,
\* is among the extensions, a name without one when "" is among them
HasDot(name) == \E i \in 1..Len(Spelling[name]) : Spelling[name][i] = "."
Selected(name, extensions) ==
    IF HasDot(name) THEN Lower(SplitLast(Spelling[name])) \in extensions
    ELSE <<>> \in extensions
\* a shape without its files that are not selected
RECURSIVE FilteredShape(_, _)
FilteredShape(sh, extensions) ==
    IF ~sh.is_dir THEN sh
    ELSE [sh EXCEPT !.content =
              [n \in {m \in DOMAIN sh.content :
                          sh.content[m].is_dir \/ Selected(m, extensions)}
                  |-> FilteredShape(sh.content[n], extensions)]]

\* C27: a successful copy_dir_from_outside_ex puts at the inner path the
\* directories of the outer directory and exactly its regular files that
\* are selected by the extensions, and a successful copy_dir_to_outside_ex
\* writes the directories of the inner directory and exactly its files that
\* are selected; a file without '.' in its name is selected iff "" is an
\* extension.
C27_FilteredCopies ==
    \A p \in InnerPaths, T \in TypeFilters :
        /\ \A o \in OutsideDirs :
               LET r == VfsCopyDirFromOutsideEx(Live(0), o, p, T) IN
               r.err = "ok"
                 => \E id \in Resolve(r.h.heap, AbsPath(curp, ListOf(p))) :
                        Shape(r.h.heap, id) = FilteredShape(OuterShape(o), T)
        /\ LET all == VfsCopyFromOutside(Live(0), "dx", p)
               w == VfsCopyDirToOutsideEx(After(all), p, NewOuterPath, T)
           IN all.err = "ok" /\ w.err = "ok"
                => \E id \in Resolve(all.h.heap, AbsPath(curp, ListOf(p))) :
                       w.out = FilteredShape(Shape(all.h.heap, id), T)

\* C28: a copy_from_outside of an outer file that raises, whether before or
\* after it has staged the blob or changed the ledger, leaves the ledger
\* and the object store as they were before the call.
C28_FailedImportIsCompensated ==
    \A o \in OuterPaths, p \in InnerPaths :
        LET r == VfsCopyFromOutside(Live(0), o, p) IN
        (OsPathIsFile(blobs, o) /\ r.err # "ok")
          => r.ledger = ledger /\ r.blobs = blobs

\* C29: in a reachable state, or one import after it, a successful
\* copy(src, dst) has cloned the subtree at src and then raised the count of
\* every digest by the number of file leaves of the subtree at src that are
\* bound to it, once per leaf; a copy whose clone the tree rejects changes
\* no count; the object store is never changed.
C29_CopyCountsLeaves ==
    \A o \in ImportFiles, q \in InnerPaths, s \in InnerPaths, d \in InnerPaths :
        LET imp == VfsCopyFromOutside(Live(0), o, q)
            v == IF imp.err = "ok" THEN After(imp) ELSE Live(0)
            r == VfsCopy(v, s, d)
            at == Resolve(v.h.heap, AbsPath(v.h.curp, ListOf(s)))
        IN /\ r.blobs = v.blobs
           /\ r.err = "ok"
                => /\ at # {}
                   /\ \A id \in at, dg \in Digests :
                          Count(r.ledger, dg) = Count(v.ledger, dg) + LeavesUnder(v.h.heap, id, dg)
           /\ (ConvertInnerPathToListPath(s).err = "ok" /\ ConvertInnerPathToListPath(d).err = "ok"
                 /\ Copy(v.h, ListOf(s), ListOf(d)).err # "ok")
                => r.ledger = v.ledger

\* ------------------------------------------------------------------------
\* Times
\* ------------------------------------------------------------------------
\* the directories above the node an absolute list path names, the root first
Ancestors(hp, abs) == UNION {Resolve(hp, SubSeq(abs, 1, n)) : n \in 1..(Len(abs) - 1)}
\* in the tree hp every directory above abs was last modified between the
\* instants t0 and t1 and not before any of its children, and no node was
\* created after it was last modified
TimesInOrder(hp, abs, t0, t1) ==
    /\ \A a \in Ancestors(hp, abs) :
           /\ last_modify_time \in DOMAIN hp[a].metadata
           /\ hp[a].metadata[last_modify_time] \in t0..t1
           /\ \A n \in DOMAIN hp[a].content :
                  LET c == hp[a].content[n] IN
                  last_modify_time \in DOMAIN hp[c].metadata
                    => hp[c].metadata[last_modify_time] <= hp[a].metadata[last_modify_time]
    /\ \A id \in TreeIds(hp) :
           {create_time, last_modify_time} \subseteq DOMAIN hp[id].metadata
             => hp[id].metadata[create_time] <= hp[id].metadata[last_modify_time]
\* the call with result r has mutated the tree at the inner path p
Timely(r, p) ==
    r.err = "ok" => TimesInOrder(r.h.heap, AbsPath(curp, ListOf(p)), clock, r.h.clock)

\* C30: after a successful mkdir, import of a file, modify_metadata_of_path,
\* copy, move or delete at p, every directory above p carries an instant of
\* the operation as its last-modified time, which is not before the
\* last-modified time of any of its children, and no node has a create time
\* after its last-modified time.
C30_TimesInOrder ==
    \A k \in Ticks, p \in InnerPaths, q \in InnerPaths :
        /\ Timely(VfsMkdir(Live(k), p), p)
        /\ Timely(VfsCopyFromOutside(Live(k), "f1", p), p)
        /\ \A m \in MetadataInputs : Timely(VfsModifyMetadataOfPath(Live(k), p, m), p)
        /\ Timely(VfsCopy(Live(k), q, p), p)
        /\ Timely(VfsMove(Live(k), q, p), p)
        /\ Timely(VfsDelete(Live(k), p), p)

\* the creation times of the subtree at a node, by name
RECURSIVE CreateTimes(_, _)
CreateTimes(hp, id) ==
    [t |-> IF create_time \in DOMAIN hp[id].metadata THEN hp[id].metadata[create_time] ELSE -1,
     content |-> [n \in DOMAIN hp[id].content |-> CreateTimes(hp, hp[id].content[n])]]
\* every node of the subtree at a node was last modified at one instant,
\* which the clock showed between t0 and t1
StampedAt(hp, id, t0, t1) ==
    \E t \in t0..t1 :
        \A i \in SubtreeIds(hp, id) :
            last_modify_time \in DOMAIN hp[i].metadata /\ hp[i].metadata[last_modify_time] = t

\* C31: after a successful copy or move every node of the subtree at dst has
\* one instant of the operation as its last-modified time; the nodes of a
\* copied subtree have the creation times of their source nodes, and the
\* nodes of the source subtree of a copy keep their metadata.
C31_PlacedSubtreeTimes ==
    \A k \in Ticks, s \in InnerPaths, d \in InnerPaths :
        LET c == VfsCopy(Live(k), s, d)
            m == VfsMove(Live(k), s, d)
            at == Resolve(heap, AbsPath(curp, ListOf(s)))
            da == AbsPath(curp, ListOf(d))
        IN /\ c.err = "ok"
                => \A src \in at, new \in Resolve(c.h.heap, da) :
                       /\ StampedAt(c.h.heap, new, Live(k).h.clock, c.h.clock)
                       /\ CreateTimes(c.h.heap, new) = CreateTimes(heap, src)
                       /\ \A i \in SubtreeIds(heap, src) : c.h.heap[i].metadata = heap[i].metadata
           /\ m.err = "ok"
                => \A new \in Resolve(m.h.heap, da) : StampedAt(m.h.heap, new, Live(k).h.clock, m.h.clock)

\* /a was made with a child at minute 0; a copy and a move of it to /b in
\* the next minute stamp both nodes at 1, the copy keeping create time 0
C31_Witness ==
    /\ curp = <<"/">> /\ clock = 0
    /\ \E id \in Resolve(heap, <<"/", "a">>) : heap[id].is_dir /\ DOMAIN heap[id].content # {}
    /\ LET c == VfsCopy(Live(1), <<"a">>, <<"b">>) IN
       /\ c.err = "ok" /\ c.h.clock = 1
       /\ \E new \in Resolve(c.h.heap, <<"/", "b">>) :
              /\ StampedAt(c.h.heap, new, 1, 1)
              /\ Cardinality(SubtreeIds(c.h.heap, new)) = 2
              /\ c.h.heap[new].metadata[create_time] = 0
    /\ LET m == VfsMove(Live(1), <<"a">>, <<"b">>) IN
       m.err = "ok" /\ \E new \in Resolve(m.h.heap, <<"/", "b">>) : StampedAt(m.h.heap, new, 1, 1)

\* ------------------------------------------------------------------------
\* CountManager beside a reader.  The connection of the live instance runs
\* its statements in the transaction sqlite3 opens before the first of them
\* and commits in store_change; a reader works on a connection of its own,
\* or calls the live CountManager from another thread.
\* ------------------------------------------------------------------------
\* the first statement of sub_quote_count_for_id
SubUpdateRows(rows, counter_id) ==
    [i \in DOMAIN rows |-> IF i = counter_id THEN rows[i] - 1 ELSE rows[i]]
\* the second statement of sub_quote_count_for_id
SubDeleteRows(rows, counter_id) ==
    [i \in {j \in DOMAIN rows : ~(j = counter_id /\ rows[j] = 0)} |-> rows[i]]
\* a second connection that reads what the first has not committed
ReaderRowsOfWriter(committed_rows, connection_rows) == connection_rows
\* the rows a select on a second connection reads
ReaderRows(committed_rows, connection_rows) == committed_rows
\* a connection whose close keeps what it has not committed
RolledBackToConnection(committed_rows, connection_rows) == connection_rows
\* the rows after a connection was dropped without commit
RolledBack(committed_rows, connection_rows) == committed_rows
\* the connection of the live instance shows a row with count 0
ZeroRowInConnection == pc # NoId /\ pc \in DOMAIN ledger /\ ledger[pc] = 0

LedgerFrame == UNCHANGED <<heap, cur, curp, clock, blobs, user, docs, saved>>

CreateStep ==
    \E d \in Digests :
        /\ pc = NoId
        /\ ledger' = CreateQuoteCountForId(ledger, d).ledger
        /\ UNCHANGED <<committed, pc, seen>> /\ LedgerFrame
AddStep ==
    \E d \in Digests :
        /\ pc = NoId
        /\ Count(ledger, d) < MaxCount
        /\ ledger' = AddQuoteCountForId(ledger, d).ledger
        /\ UNCHANGED <<committed, pc, seen>> /\ LedgerFrame
SubUpdateStep ==
    \E d \in Digests :
        /\ pc = NoId
        /\ ledger' = SubUpdateRows(ledger, d)
        /\ pc' = d
        /\ UNCHANGED <<committed, seen>> /\ LedgerFrame
SubDeleteStep ==
    /\ pc # NoId
    /\ ledger' = SubDeleteRows(ledger, pc)
    /\ pc' = NoId
    /\ UNCHANGED <<committed, seen>> /\ LedgerFrame
\* store_change: commit and close; the next CountManager(root) reads the rows
StoreChangeStep ==
    /\ pc = NoId
    /\ committed' = ledger
    /\ UNCHANGED <<ledger, pc, seen>> /\ LedgerFrame
\* the instance is dropped without store_change, at any point: its
\* transaction is rolled back, and the next CountManager(root) reads the rows
AbandonStep ==
    /\ ledger' = RolledBack(committed, ledger)
    /\ pc' = NoId
    /\ UNCHANGED <<committed, seen>> /\ LedgerFrame
\* get_quote_count_for_id of a CountManager(root) of the reader's own
ReadStep ==
    \E d \in Digests :
        LET r == GetQuoteCountForId(ReaderRows(committed, ledger), d) IN
        /\ seen' = [id |-> d, err |-> r.err, count |-> r.val, zero |-> ZeroRowInConnection]
        /\ UNCHANGED <<ledger, committed, pc>> /\ LedgerFrame
\* get_quote_count_for_id of the live CountManager from another thread:
\* sqlite3 refuses the use of a connection outside the thread that made it
ReadOfOtherThreadStep ==
    \E d \in Digests :
        /\ seen' = [id |-> d, err |-> "ProgrammingError", count |-> 0, zero |-> ZeroRowInConnection]
        /\ UNCHANGED <<ledger, committed, pc>> /\ LedgerFrame

NextLedger ==
    \/ CreateStep
    \/ AddStep
    \/ SubUpdateStep
    \/ SubDeleteStep
    \/ StoreChangeStep
    \/ AbandonStep
    \/ ReadStep
    \/ ReadOfOtherThreadStep

SpecLedger == Init /\ [][NextLedger]_vars

\* C32: the two statements of a decrement are one transaction: they give
\* what the call gives, no committed row has a count below 1, and a reader
\* that reads at any point of a decrement gets no count below 1.
C32_DecrementIsOneTransaction ==
    /\ pc = NoId
          => \A d \in Digests :
                 SubDeleteRows(SubUpdateRows(ledger, d), d) = SubQuoteCountForId(ledger, d).ledger
    /\ \A d \in DOMAIN committed : committed[d] >= 1
    /\ seen.err = "ok" => seen.count >= 1

\* a reader has read the count of an id while the connection of the live
\* instance showed the row of that id with count 0
C32_Witness ==
    /\ seen.zero /\ seen.id = pc
    /\ seen.err = "ok" /\ seen.count = 1
    /\ ZeroRowInConnection

\* the call with result r has created at the list path lp a node that is a
\* directory or not, with no entry and no digest, and has left the cursor
Created(r, lp, isdir) ==
    r.err = "ok"
      => /\ \E id \in Resolve(r.h.heap, AbsPath(curp, lp)) :
                /\ r.h.heap[id].is_dir = isdir
                /\ r.h.heap[id].content = EmptyFn
                /\ r.h.heap[id].hash = NoHash
         /\ IsDir(r.h, lp).err = "ok" /\ IsDir(r.h, lp).val = isdir
         /\ r.h.cur = cur /\ r.h.curp = curp

\* C33: a successful mkdir(p) or create_file(p) of the tree layer, p relative
\* to the current directory or absolute, leaves at p an empty directory or a
\* file without digest, which is_dir tells apart, and leaves the cursor
\* where it was.
C33_CreateUnderCursor ==
    \A lp \in ListPaths :
        /\ Created(Mkdir(Live(0).h, lp), lp, TRUE)
        /\ Created(CreateFile(Live(0).h, lp), lp, FALSE)

\* ------------------------------------------------------------------------
\* Sessions of one user on the disk: an instance is opened from the saved
\* document and the committed rows, works, and is closed by store_change or
\* dropped without it.  The files of EntityFiles are written and removed by
\* the calls themselves.
\* ------------------------------------------------------------------------
Stored == Client(MaxNodes, {0}, {EmptyFn}, {"f1", "f2"}, {})

\* store_change, then VirtualFileSystem(root, user)
StoreChangeAction ==
    /\ saved' = TreeDocument(heap)
    /\ committed' = ledger
    /\ heap' = TreeDocument(heap)
    /\ cur' = 0
    /\ curp' = <<"/">>
    /\ UNCHANGED <<clock, ledger, blobs, user, docs, pc, seen>>
\* the instance is dropped without store_change, then
\* VirtualFileSystem(root, user)
AbandonAction ==
    /\ heap' = saved
    /\ cur' = 0
    /\ curp' = <<"/">>
    /\ ledger' = RolledBack(committed, ledger)
    /\ UNCHANGED <<clock, blobs, user, docs, committed, saved, pc, seen>>

NextStore ==
    \/ MkdirAction(Stored)
    \/ CopyFromOutsideAction(Stored)
    \/ DeleteAction(Stored)
    \/ StoreChangeAction
    \/ AbandonAction

SpecStore == Init /\ [][NextStore]_vars

\* the number of file nodes bound to d in the saved documents of all users
SavedReferences(d) == Cardinality(BoundNodes(saved, d)) + BoundInDocs(docs, DOMAIN docs, d)

OsGetcwd == "dx"
RECURSIVE OsWalk(_, _)
OsWalk(outer_path, names) ==
    IF names = <<>> THEN outer_path
    ELSE IF outer_path \notin DOMAIN OuterFS \/ OuterFS[outer_path].kind # "dir" THEN "none"
    ELSE IF Head(names) \notin DOMAIN OuterFS[outer_path].entries THEN "none"
    ELSE OsWalk(OuterFS[outer_path].entries[Head(names)], Tail(names))
\* the outer path a text names
OuterPathOfText(path) ==
    IF path = <<>> \/ Head(path) = Sep THEN "none" ELSE OsWalk(OsGetcwd, Split(path))
\* os.path.basename
RECURSIVE OsPathBasename(_)
OsPathBasename(path) ==
    IF path = <<>> \/ Last(path) = Sep THEN ""
    ELSE IF Len(path) = 1 \/ path[Len(path) - 1] = Sep THEN Last(path)
    ELSE "?"
\* os.path.join(a, name)
OsPathJoin(a, name) ==
    LET b == IF name = "" THEN <<>> ELSE <<name>> IN
    IF a = <<>> THEN b ELSE IF Last(a) = Sep THEN a \o b ELSE a \o <<Sep>> \o b

\* simple_copy_to_outside: [h, ledger, blobs, err, out]; out is what the
\* call has put at the outer location
SimpleCopyToOutside(v, inner_path, outer_dir, outer_dst_name) ==
    LET r == VfsCopyFromOutside(v, OuterPathOfText(inner_path),
                 OsPathJoin(outer_dir, IF outer_dst_name = "" THEN OsPathBasename(inner_path)
                                                               ELSE outer_dst_name))
    IN [h |-> r.h, ledger |-> r.ledger, blobs |-> r.blobs, err |-> r.err, out |-> Nothing]

\* C35: simple_copy_to_outside(inner_path, outer_dir, name) leaves the
\* tree, the ledger and the object store as they were, and when it returns
\* normally it has put a file or a directory at the outer location.
C35_SimpleCopyToOutsideExports ==
    \A p \in InnerPaths, dir \in InnerPaths, n \in Names \cup {""} :
        LET r == SimpleCopyToOutside(Live(0), p, dir, n) IN
        /\ TreeDocument(r.h.heap) = TreeDocument(heap)
        /\ r.ledger = ledger /\ r.blobs = blobs
        /\ r.err = "ok" => r.out # Nothing

\* C36: in a reachable state, or one import after it, move(src, dst) changes
\* no ledger count and adds or removes no blob, whether it returns or
\* raises, and for every digest the tree holds as many file nodes bound to
\* it after the call as before.
C36_MoveKeepsReferences ==
    \A o \in ImportFiles, q \in InnerPaths, s \in InnerPaths, d \in InnerPaths :
        LET imp == VfsCopyFromOutside(Live(0), o, q)
            v == IF imp.err = "ok" THEN After(imp) ELSE Live(0)
            r == VfsMove(v, s, d)
        IN /\ r.ledger = v.ledger
           /\ r.blobs = v.blobs
           /\ \A dg \in Digests :
                  Cardinality(BoundNodes(r.h.heap, dg)) = Cardinality(BoundNodes(v.h.heap, dg))

\* C37: a delete(p) that raises, the delete of the root "/" among them, has
\* lowered no count, removed no row and removed no blob.
C37_RaisingDeleteKeepsLedger ==
    \A p \in InnerPaths :
        LET r == VfsDelete(Live(0), p)
        IN r.err # "ok" => r.ledger = ledger /\ r.blobs = blobs

\* C38: a copy_from_outside of an outer file whose digest has no blob leaves
\* every blob of the store in place under its name with its bytes, whatever
\* the base name of the outer file is.
C38_ImportKeepsBlobs ==
    \A o \in OuterPaths, p \in InnerPaths :
        (OsPathIsFile(blobs, o) /\ CalculateFileHash(blobs, o) \notin DOMAIN blobs)
          => LET r == VfsCopyFromOutside(Live(0), o, p)
             IN \A d \in DOMAIN blobs : d \in DOMAIN r.blobs /\ r.blobs[d] = blobs[d]

\* C39: in every reachable state the path of the cursor resolves from the
\* root to a directory node, and that node is the one the cursor references.
C39_CursorIsValid == Resolve(heap, curp) = {cur} /\ heap[cur].is_dir

\* ------------------------------------------------------------------------
\* The calls that only read
\* ------------------------------------------------------------------------
RECURSIVE CopyDirToOutside(_, _, _)
RECURSIVE CopyItemsToOutside(_, _, _, _, _)

\* the loop `for item in contents` of __copy_dir_to_outside, from the i-th
\* name on; ents is what the new outer directory holds so far
CopyItemsToOutside(v, inner_path, contents, i, ents) ==
    IF i > Len(EntryNameSeq) THEN ToOutside(v.h, "ok", OutDir(ents))
    ELSE LET item == EntryNameSeq[i]
             path_tmp == inner_path \o <<item>> IN
         IF item \notin contents
         THEN CopyItemsToOutside(v, inner_path, contents, i + 1, ents)
         ELSE Let(IsDir(v.h, path_tmp), LAMBDA d :
              Let(IF ~d.val
                  THEN CopyFileToOutside(WithH(v, d), path_tmp, NewOuterPath)
                  ELSE CopyDirToOutside(WithH(v, d), path_tmp, NewOuterPath), LAMBDA r :
              IF r.err # "ok" THEN ToOutside(r.h, r.err, OutDir(ents))
              ELSE CopyItemsToOutside(WithH(v, r), inner_path, contents,
                                      i + 1, DictSet(ents, item, r.out))))

\* __copy_dir_to_outside: [h, err, out]
CopyDirToOutside(v, inner_path, outer_path) ==
    Let(IsPathExists(v.h, inner_path), LAMBDA e :
    IF ~e.ok THEN ToOutside(e.h, "PathNotExists", Nothing)
    ELSE Let(IsDir(e.h, inner_path), LAMBDA d :
         IF ~d.val THEN ToOutside(d.h, "PathIsNotDir", Nothing)
         ELSE IF IsOuterPathContained(v.blobs, outer_path) THEN ToOutside(d.h, "InvalidOperation", Nothing)
         ELSE IF ~OsPathDirnameExists(outer_path) THEN ToOutside(d.h, "FileNotFoundError", Nothing)
         ELSE IF OsPathExists(v.blobs, outer_path) THEN ToOutside(d.h, "FileExistsError", Nothing)
         ELSE Let(GetDirContent(d.h, inner_path), LAMBDA c :
              CopyItemsToOutside(WithH(v, c), inner_path, c.val, 1, EmptyFn))))

\* copy_to_outside: [h, err, out]
VfsCopyToOutside(v, inner_path, outer_path) ==
    Let(ConvertInnerPathToListPath(inner_path), LAMBDA p :
    IF p.err # "ok" THEN ToOutside(v.h, p.err, Nothing)
    ELSE Let(IsDir(v.h, p.val), LAMBDA d :
         IF d.err # "ok" THEN ToOutside(d.h, d.err, Nothing)
         ELSE IF ~d.val THEN CopyFileToOutside(WithH(v, d), p.val, outer_path)
         ELSE CopyDirToOutside(WithH(v, d), p.val, outer_path)))

\* get_file_content: [h, err, val]; the bytes of the blob of the file's digest
VfsGetFileContent(v, file_path) ==
    Let(ConvertInnerPathToListPath(file_path), LAMBDA p :
    IF p.err # "ok" THEN [h |-> v.h, err |-> p.err, val |-> ""]
    ELSE Let(GetFileHash(v.h, p.val), LAMBDA f :
         IF f.err # "ok" THEN [h |-> f.h, err |-> f.err, val |-> ""]
         ELSE IF f.val \notin DOMAIN v.blobs THEN [h |-> f.h, err |-> "FileNotFoundError", val |-> ""]
         ELSE [h |-> f.h, err |-> "ok", val |-> v.blobs[f.val]]))

\* the outer paths a call writes to
ExportPaths == {NewOuterPath, OrphanOuterPath, "f1", "up"}

\* the handler after each call that only reads, over all inputs
ReadingCalls ==
    {IsPathExists(Live(0).h, ListOf(p)).h : p \in InnerPaths}
    \cup {GetMetadataOfPath(Live(0).h, ListOf(p)).h : p \in InnerPaths}
    \cup {GetDirContent(Live(0).h, ListOf(p)).h : p \in InnerPaths}
    \cup {VfsGetFileContent(Live(0), p).h : p \in InnerPaths}
    \cup {VfsCopyToOutside(Live(0), p, o).h : p \in InnerPaths, o \in ExportPaths}
    \cup {CompareTwoDir(Live(0).h, b, p).h : b \in InnerPaths, p \in InnerPaths}

\* C40: exists, get_cwd, get_metadata, list, get_file_content,
\* is_file_exist_via_file_id, copy_to_outside and compare_two_dir, which have
\* no access to the ledger and write no blob, leave the tree and the cursor
\* as they were, whether they return or raise; compare_two_dir in particular
\* leaves the cursor where it was.
C40_ReadingCallsChangeNothing ==
    /\ GetCurrentDirPath(Live(0).h) = curp
    /\ \A d \in Digests : IsFileExistViaFileId(blobs, d) <=> d \in DOMAIN blobs
    /\ \A h \in ReadingCalls : SameHandler(h)

====
